---- MODULE Spec2Model ----
(***************************************************************************)
(* ASON codec (SmartCompressor): analysis passes, encoder (_serialize,     *)
(* _escVal, compress) and decoder (decompress, _parseValue, _parseObject,  *)
(* _parseUniformArray, _parseList, _parseCsv, _parseVal, _deepMerge) of    *)
(* nodejs-compressor/src/compressor/SmartCompressor.js.                    *)
(*                                                                         *)
(* A text is a sequence of one-character strings.  A Value is a tagged     *)
(* tuple:  <<"null">>, <<"bool", b>>, <<"num", m, e>> (the number m/10^e,  *)
(* normalised), <<"str", chars>>, <<"seq", elements>>, <<"map", pairs>>    *)
(* with pairs a sequence of <<key, value>> in insertion order.             *)
(***************************************************************************)
EXTENDS Integers, Sequences, FiniteSets, TLC

(***************************************************************************)
(* Characters and JavaScript string primitives                             *)
(***************************************************************************)
S(s) == [i \in 1..Len(s) |-> SubSeq(s, i, i)]

Digits == {"0", "1", "2", "3", "4", "5", "6", "7", "8", "9"}
\* \s of JavaScript regular expressions and String.prototype.trim, on the alphabet used
WhiteSpace == {" ", "\n", "\t", "\r"}
\* [\n\r\t] of the quoting tests
ControlChars == {"\n", "\r", "\t"}
\* \w of JavaScript regular expressions
WordChars ==
  {"a", "b", "c", "d", "e", "f", "g", "h", "i", "j", "k", "l", "m",
   "n", "o", "p", "q", "r", "s", "t", "u", "v", "w", "x", "y", "z",
   "A", "B", "C", "D", "E", "F", "G", "H", "I", "J", "K", "L", "M",
   "N", "O", "P", "Q", "R", "S", "T", "U", "V", "W", "X", "Y", "Z",
   "_"} \cup Digits

\* const x = e; G(x): JavaScript runs one statement after the other, so the
\* value of e is computed once, before the statements G that use it
With(e, G(_)) == CHOOSE v \in {G(x) : x \in {e}} : TRUE

MinOf(I) == CHOOSE i \in I : \A j \in I : i <= j
MaxOf(I) == CHOOSE i \in I : \A j \in I : i >= j

\* s.slice(from) with a 1-based first position
From(s, i) == IF i > Len(s) THEN <<>> ELSE SubSeq(s, i, Len(s))
\* s.slice(0, n)
Take(s, n) == IF n <= 0 THEN <<>> ELSE SubSeq(s, 1, IF n > Len(s) THEN Len(s) ELSE n)

StartsWith(s, p) == Len(p) <= Len(s) /\ SubSeq(s, 1, Len(p)) = p
EndsWith(s, p) == Len(p) <= Len(s) /\ SubSeq(s, Len(s) - Len(p) + 1, Len(s)) = p
\* s.indexOf(c) as a 1-based position, 0 when absent (JavaScript: -1)
IndexOf(s, c) ==
  LET I == {i \in 1..Len(s) : s[i] = c} IN IF I = {} THEN 0 ELSE MinOf(I)
\* s.includes(p)
Includes(s, p) == \E i \in 1..(Len(s) - Len(p) + 1) : SubSeq(s, i, i + Len(p) - 1) = p
HasChar(s, C) == \E i \in 1..Len(s) : s[i] \in C

TrimStart(s) ==
  LET I == {i \in 1..Len(s) : s[i] \notin WhiteSpace}
  IN IF I = {} THEN <<>> ELSE SubSeq(s, MinOf(I), Len(s))
TrimEnd(s) ==
  LET I == {i \in 1..Len(s) : s[i] \notin WhiteSpace}
  IN IF I = {} THEN <<>> ELSE SubSeq(s, 1, MaxOf(I))
Trim(s) == TrimEnd(TrimStart(s))

\* s.split(c) for a one-character separator
RECURSIVE Split(_, _)
Split(s, c) ==
  LET i == IndexOf(s, c)
  IN IF i = 0 THEN <<s>> ELSE <<Take(s, i - 1)>> \o Split(From(s, i + 1), c)

\* parts.join(sep)
RECURSIVE Join(_, _)
Join(parts, sep) ==
  IF Len(parts) = 0 THEN <<>>
  ELSE IF Len(parts) = 1 THEN parts[1]
  ELSE parts[1] \o sep \o Join(Tail(parts), sep)

\* " ".repeat(n)
Spaces(n) == [i \in 1..n |-> " "]

RECURSIVE DigitsOf(_)
DigitsOf(n) ==
  LET d == CHOOSE c \in Digits : S("0123456789")[(n % 10) + 1] = c
  IN IF n < 10 THEN <<d>> ELSE DigitsOf(n \div 10) \o <<d>>
DigitVal(c) == CHOOSE d \in 0..9 : S("0123456789")[d + 1] = c
RECURSIVE NatOf(_)
NatOf(ds) == IF Len(ds) = 0 THEN 0 ELSE NatOf(Take(ds, Len(ds) - 1)) * 10 + DigitVal(ds[Len(ds)])
AllDigits(s) == \A i \in 1..Len(s) : s[i] \in Digits

(***************************************************************************)
(* Values                                                                  *)
(***************************************************************************)
Null == <<"null">>
Bool(b) == <<"bool", b>>
Str(s) == <<"str", s>>
Arr(es) == <<"seq", es>>
Obj(ps) == <<"map", ps>>
RECURSIVE Normalise(_, _)
Normalise(m, e) == IF e > 0 /\ m % 10 = 0 THEN Normalise(m \div 10, e - 1) ELSE <<"num", m, e>>
Num(n) == <<"num", n, 0>>

IsNull(v) == v[1] = "null"
IsBool(v) == v[1] = "bool"
IsNum(v) == v[1] = "num"
IsStr(v) == v[1] = "str"
IsArr(v) == v[1] = "seq"
IsObj(v) == v[1] = "map"
\* v === null || typeof v !== "object"
IsPrimitive(v) == v[1] \in {"null", "bool", "num", "str"}

\* Object.keys(o), Object.values(o), o[k], k in o
Keys(o) == [i \in 1..Len(o[2]) |-> o[2][i][1]]
Values(o) == [i \in 1..Len(o[2]) |-> o[2][i][2]]
HasKey(o, k) == \E i \in 1..Len(o[2]) : o[2][i][1] = k
Undefined == <<"undefined">>
Get(o, k) ==
  IF HasKey(o, k) THEN o[2][CHOOSE i \in 1..Len(o[2]) : o[2][i][1] = k][2] ELSE Undefined
\* o[k] = v: an existing key keeps its place, a new key is appended
Put(o, k, v) ==
  IF HasKey(o, k)
  THEN Obj([i \in 1..Len(o[2]) |-> IF o[2][i][1] = k THEN <<k, v>> ELSE o[2][i]])
  ELSE Obj(Append(o[2], <<k, v>>))

(***************************************************************************)
(* Scalars as text: JSON.stringify / JSON.parse of a string, String(n) and *)
(* parseFloat, and the number test /^-?\d+\.?\d*$/                         *)
(***************************************************************************)
Quote == "\""
BackSlash == "\\"

EscapeChar(ch) ==
  IF ch = Quote THEN <<BackSlash, Quote>>
  ELSE IF ch = BackSlash THEN <<BackSlash, BackSlash>>
  ELSE IF ch = "\n" THEN <<BackSlash, "n">>
  ELSE IF ch = "\r" THEN <<BackSlash, "r">>
  ELSE IF ch = "\t" THEN <<BackSlash, "t">>
  ELSE <<ch>>
RECURSIVE EscapeChars(_)
EscapeChars(s) == IF Len(s) = 0 THEN <<>> ELSE EscapeChar(s[1]) \o EscapeChars(Tail(s))
\* JSON.stringify(s) of a string s
JSONStringify(s) == <<Quote>> \o EscapeChars(s) \o <<Quote>>

\* The body of a JSON string literal up to its closing quote: [ok, out, rest]
RECURSIVE UnescapeBody(_, _)
UnescapeBody(s, out) ==
  IF Len(s) = 0 THEN [ok |-> FALSE, out |-> out, rest |-> <<>>]
  ELSE IF s[1] = Quote THEN [ok |-> TRUE, out |-> out, rest |-> Tail(s)]
  ELSE IF s[1] \in ControlChars THEN [ok |-> FALSE, out |-> out, rest |-> <<>>]
  ELSE IF s[1] = BackSlash
       THEN IF Len(s) < 2 THEN [ok |-> FALSE, out |-> out, rest |-> <<>>]
            ELSE IF s[2] \in {Quote, BackSlash, "/"} THEN UnescapeBody(From(s, 3), Append(out, s[2]))
            ELSE IF s[2] = "n" THEN UnescapeBody(From(s, 3), Append(out, "\n"))
            ELSE IF s[2] = "r" THEN UnescapeBody(From(s, 3), Append(out, "\r"))
            ELSE IF s[2] = "t" THEN UnescapeBody(From(s, 3), Append(out, "\t"))
            ELSE [ok |-> FALSE, out |-> out, rest |-> <<>>]
  ELSE UnescapeBody(Tail(s), Append(out, s[1]))
\* JSON.parse(t) of a text t that starts with a double quote: [ok, value];
\* ok = FALSE stands for the SyntaxError JSON.parse throws
JSONParse(t) ==
  With(Trim(t), LAMBDA u :
    IF Len(u) > 0 /\ u[1] = Quote
    THEN With(UnescapeBody(Tail(u), <<>>), LAMBDA r :
           IF r.ok /\ Len(r.rest) = 0 THEN [ok |-> TRUE, value |-> r.out]
           ELSE [ok |-> FALSE, value |-> <<>>])
    ELSE [ok |-> FALSE, value |-> <<>>])

\* 10^e
RECURSIVE Pow10(_)
Pow10(e) == IF e = 0 THEN 1 ELSE 10 * Pow10(e - 1)
\* String(n) of a number n = m/10^e in plain decimal notation
NumberToString(v) ==
  LET m == v[2]
      e == v[3]
      a == IF m < 0 THEN -m ELSE m
      ip == DigitsOf(a \div Pow10(e))
      fr == DigitsOf(a % Pow10(e))
      frac == IF e = 0 THEN <<>> ELSE <<".">> \o [i \in 1..(e - Len(fr)) |-> "0"] \o fr
  IN (IF m < 0 THEN <<"-">> ELSE <<>>) \o ip \o frac

\* /^-?\d+\.?\d*$/.test(s)
LooksNumeric(s) ==
  LET u == IF Len(s) > 0 /\ s[1] = "-" THEN Tail(s) ELSE s
      d == IndexOf(u, ".")
      ip == IF d = 0 THEN u ELSE Take(u, d - 1)
      fp == IF d = 0 THEN <<>> ELSE From(u, d + 1)
  IN Len(ip) > 0 /\ AllDigits(ip) /\ AllDigits(fp)
\* parseFloat(s) of a text that passes LooksNumeric
ParseFloat(s) ==
  LET neg == s[1] = "-"
      u == IF neg THEN Tail(s) ELSE s
      d == IndexOf(u, ".")
      ip == IF d = 0 THEN u ELSE Take(u, d - 1)
      fp == IF d = 0 THEN <<>> ELSE From(u, d + 1)
      m == NatOf(ip \o fp)
  IN Normalise(IF neg THEN -m ELSE m, Len(fp))

\* the quoting test of _serialize for a string
NeedsQuotes(val) ==
  \/ HasChar(val, ControlChars)
  \/ val = <<>>
  \/ val = S("null")
  \/ val = S("true")
  \/ val = S("false")
  \/ LooksNumeric(val)

(***************************************************************************)
(* Array.prototype.sort() on keys: order by UTF-16 code unit (the          *)
(* alphabet is tab, newline, return and printable ASCII less the backtick) *)
(***************************************************************************)
Ascii == <<"\t", "\n", "\r">> \o
         S(" !\"#$%&'()*+,-./0123456789:;<=>?@ABCDEFGHIJKLMNOPQRSTUVWXYZ[\\]^_abcdefghijklmnopqrstuvwxyz{|}~")
CharCode(ch) == CHOOSE i \in 1..Len(Ascii) : Ascii[i] = ch
RECURSIVE StrLess(_, _)
StrLess(a, b) ==
  IF Len(b) = 0 THEN FALSE
  ELSE IF Len(a) = 0 THEN TRUE
  ELSE IF a[1] = b[1] THEN StrLess(Tail(a), Tail(b))
  ELSE CharCode(a[1]) < CharCode(b[1])
RECURSIVE InsertSorted(_, _)
InsertSorted(sorted, k) ==
  IF Len(sorted) = 0 THEN <<k>>
  ELSE IF StrLess(k, sorted[1]) THEN <<k>> \o sorted
  ELSE <<sorted[1]>> \o InsertSorted(Tail(sorted), k)
RECURSIVE SortKeys(_)
SortKeys(ks) == IF Len(ks) = 0 THEN <<>> ELSE InsertSorted(SortKeys(Take(ks, Len(ks) - 1)), ks[Len(ks)])

(***************************************************************************)
(* Fingerprinting and analysis                                             *)
(***************************************************************************)
\* keys.slice().sort().join("|")
SortedSig(o) == Join(SortKeys(Keys(o)), <<"|">>)

\* _getMostCommonKeys(arr): [keys, maxCount]; uniformity is maxCount / arr.length
GetMostCommonKeys(arr) ==
  LET n == Len(arr)
      sig == [i \in 1..n |-> SortedSig(arr[i])]
      cnt == [i \in 1..n |-> Cardinality({j \in 1..n : sig[j] = sig[i]})]
      firsts == {i \in 1..n : \A j \in 1..(i - 1) : sig[j] # sig[i]}
      maxCount == IF n = 0 THEN 0 ELSE MaxOf({cnt[i] : i \in 1..n})
      best == MinOf({i \in firsts : cnt[i] = maxCount})
  IN [keys |-> IF n = 0 THEN <<>> ELSE Keys(arr[best]), maxCount |-> maxCount]

\* the every() test of _isUniformObjects with typeof alone, without "item &&":
\* typeof null is "object"
AllObjectsByTypeof(arr) == \A i \in 1..Len(arr) : IsObj(arr[i]) \/ IsNull(arr[i])
\* arr.every((item) => item && typeof item === "object" && !Array.isArray(item))
AllObjects(arr) == \A i \in 1..Len(arr) : IsObj(arr[i])
\* Object.keys(item) of _getMostCommonKeys throws a TypeError on null
KeysThrow(arr) == \E i \in 1..Len(arr) : IsNull(arr[i])

\* _isUniformObjects with a threshold that has to be exceeded
IsUniformObjectsAbove(arr) ==
  /\ Len(arr) > 0
  /\ AllObjects(arr)
  /\ ~KeysThrow(arr)
  /\ GetMostCommonKeys(arr).maxCount * 10 > 6 * Len(arr)
\* _isUniformObjects(arr): uniformity >= 0.6; when Object.keys throws the call
\* does not return
IsUniformObjects(arr) ==
  /\ Len(arr) > 0
  /\ AllObjects(arr)
  /\ ~KeysThrow(arr)
  /\ GetMostCommonKeys(arr).maxCount * 10 >= 6 * Len(arr)
\* whether compress(data) throws: _autoDetectPatterns and _serialize call
\* _isUniformObjects on every array of the tree, and the call throws when its
\* every() test passes and Object.keys throws
RECURSIVE CompressThrows(_)
CompressThrows(data) ==
  IF IsArr(data)
  THEN \/ Len(data[2]) > 0 /\ AllObjects(data[2]) /\ KeysThrow(data[2])
       \/ \E i \in 1..Len(data[2]) : CompressThrows(data[2][i])
  ELSE IF IsObj(data) THEN \E i \in 1..Len(data[2]) : CompressThrows(data[2][i][2])
  ELSE FALSE

\* patterns.get(signature).count++ on the insertion-ordered Map patterns
BumpPattern(patterns, sig, keys) ==
  IF \E i \in 1..Len(patterns) : patterns[i].sig = sig
  THEN [i \in 1..Len(patterns) |->
          IF patterns[i].sig = sig
          THEN [patterns[i] EXCEPT !.count = @ + 1] ELSE patterns[i]]
  ELSE Append(patterns, [sig |-> sig, keys |-> keys, count |-> 1])

\* obj[key] for every obj of data and every key of keys, in visiting order
RECURSIVE CellsOf(_, _)
CellsOf(objs, keys) ==
  IF Len(objs) = 0 THEN <<>>
  ELSE [j \in 1..Len(keys) |-> Get(objs[1], keys[j])] \o CellsOf(Tail(objs), keys)

\* the traversal of _autoDetectPatterns(data, path, patterns)
RECURSIVE AutoDetectWalk(_, _)
RECURSIVE AutoDetectEach(_, _)
AutoDetectEach(vals, patterns) ==
  IF Len(vals) = 0 THEN patterns
  ELSE With(AutoDetectWalk(vals[1], patterns),
            LAMBDA walked : AutoDetectEach(Tail(vals), walked))
AutoDetectWalk(data, patterns) ==
  IF IsArr(data) /\ IsUniformObjects(data[2])
  THEN LET keys == GetMostCommonKeys(data[2]).keys
           signature == Join(keys, <<"|">>)
       IN AutoDetectEach(CellsOf(data[2], keys), BumpPattern(patterns, signature, keys))
  ELSE IF IsArr(data) THEN AutoDetectEach(data[2], patterns)
  ELSE IF IsObj(data) THEN AutoDetectEach(Values(data), patterns)
  ELSE patterns

\* count >= 3 of _autoDetectPatterns
RefThreshold == 3
\* the name "$" + refCounter++
RefName(n) == <<"$">> \o DigitsOf(n)
\* map.set(k, v) on an insertion-ordered Map held as a sequence of <<k, v>>
MapSet(map, k, v) ==
  IF \E i \in 1..Len(map) : map[i][1] = k
  THEN [i \in 1..Len(map) |-> IF map[i][1] = k THEN <<k, v>> ELSE map[i]]
  ELSE Append(map, <<k, v>>)
MapHas(map, k) == \E i \in 1..Len(map) : map[i][1] = k
MapGet(map, k) == map[CHOOSE i \in 1..Len(map) : map[i][1] = k][2]

\* PromotePatterns with the test count >= 2 in place of count >= 3
RECURSIVE PromotePatternsAtTwo(_, _)
PromotePatternsAtTwo(patterns, st) ==
  IF Len(patterns) = 0 THEN st
  ELSE PromotePatternsAtTwo(Tail(patterns),
         IF patterns[1].count >= 2
         THEN [refs |-> MapSet(st.refs, patterns[1].sig,
                                [name |-> RefName(st.counter), keys |-> patterns[1].keys,
                                 count |-> patterns[1].count]),
               counter |-> st.counter + 1]
         ELSE st)

\* the root call of _autoDetectPatterns on st = [refs, counter]: structureRefs is
\* a Map signature -> [name, keys, count]
RECURSIVE PromotePatterns(_, _)
PromotePatterns(patterns, st) ==
  IF Len(patterns) = 0 THEN st
  ELSE PromotePatterns(Tail(patterns),
         IF patterns[1].count >= RefThreshold
         THEN [refs |-> MapSet(st.refs, patterns[1].sig,
                                [name |-> RefName(st.counter), keys |-> patterns[1].keys,
                                 count |-> patterns[1].count]),
               counter |-> st.counter + 1]
         ELSE st)
AutoDetectPatterns(data, st) == PromotePatterns(AutoDetectWalk(data, <<>>), st)

\* keys.length > 0 && keys.length <= 3 of _detectRepeatedObjects
MaxAliasKeys == 3
\* count >= 2 of _detectRepeatedObjects
AliasThreshold == 2
\* hasComplexNested of _detectRepeatedObjects
HasComplexNested(o) ==
  \E i \in 1..Len(o[2]) :
     LET val == o[2][i][2] IN (IsArr(val) \/ IsObj(val)) /\ Len(val[2]) > 0
IsAliasCandidate(o) ==
  Len(o[2]) > 0 /\ Len(o[2]) <= MaxAliasKeys /\ ~HasComplexNested(o)

\* objectCounts.set(jsonStr, (objectCounts.get(jsonStr) || 0) + 1); JSON.stringify
\* is one-to-one on Values, so the Map is keyed by the Value itself
BumpCount(counts, k) ==
  IF \E i \in 1..Len(counts) : counts[i][1] = k
  THEN [i \in 1..Len(counts) |-> IF counts[i][1] = k THEN <<k, counts[i][2] + 1>> ELSE counts[i]]
  ELSE Append(counts, <<k, 1>>)

AliasName(n) == S("&obj") \o DigitsOf(n)
RECURSIVE PromoteObjects(_, _)
PromoteObjects(counts, st) ==
  IF Len(counts) = 0 THEN st
  ELSE PromoteObjects(Tail(counts),
         IF counts[1][2] >= AliasThreshold
         THEN [st EXCEPT !.aliases = MapSet(@, counts[1][1], AliasName(st.counter)),
                         !.counter = @ + 1]
         ELSE st)

\* _detectRepeatedObjects(data, objectCounts) on st = [counts, aliases, counter];
\* the closing test runs at the end of every call, recursive calls included
RECURSIVE DetectRepeatedObjects(_, _)
RECURSIVE DetectRepeatedEach(_, _)
DetectRepeatedEach(vals, st) ==
  IF Len(vals) = 0 THEN st
  ELSE With(DetectRepeatedObjects(vals[1], st),
            LAMBDA walked : DetectRepeatedEach(Tail(vals), walked))
DetectRepeatedObjects(data, st) ==
  LET walked ==
        IF IsArr(data) THEN DetectRepeatedEach(data[2], st)
        ELSE IF IsObj(data)
             THEN DetectRepeatedEach(Values(data),
                    IF IsAliasCandidate(data)
                    THEN [st EXCEPT !.counts = BumpCount(@, data)] ELSE st)
             ELSE st
  IN IF Len(walked.counts) > 0 /\ Len(walked.aliases) = 0
     THEN PromoteObjects(walked.counts, walked)
     ELSE walked

\* val.length >= 5 of _detectFrequentValues
MinDictLength == 5
\* count >= 2 of _detectFrequentValues
DictThreshold == 2
\* aliasLen of _detectFrequentValues
AliasLen == 3
RECURSIVE FrequentWalk(_, _)
RECURSIVE FrequentEach(_, _)
RECURSIVE FrequentValuesOf(_, _)
FrequentEach(vals, counts) ==
  IF Len(vals) = 0 THEN counts
  ELSE With(FrequentWalk(vals[1], counts),
            LAMBDA walked : FrequentEach(Tail(vals), walked))
FrequentValuesOf(vals, counts) ==
  IF Len(vals) = 0 THEN counts
  ELSE With(FrequentWalk(vals[1],
                         IF IsStr(vals[1]) /\ Len(vals[1][2]) >= MinDictLength
                         THEN BumpCount(counts, vals[1][2]) ELSE counts),
            LAMBDA walked : FrequentValuesOf(Tail(vals), walked))
FrequentWalk(data, counts) ==
  IF IsArr(data) THEN FrequentEach(data[2], counts)
  ELSE IF IsObj(data) THEN FrequentValuesOf(Values(data), counts)
  ELSE counts

\* savings that count one character more for every entry
SavingsPlusOne(value, count) ==
  Len(value) * count - (Len(value) + AliasLen + (AliasLen - 1) * (count - 1)) + 1
Savings(value, count) ==
  Len(value) * count - (Len(value) + AliasLen + (AliasLen - 1) * (count - 1))
RECURSIVE Candidates(_)
Candidates(counts) ==
  IF Len(counts) = 0 THEN <<>>
  ELSE (IF counts[1][2] >= DictThreshold /\ Savings(counts[1][1], counts[1][2]) > 0
        THEN <<[value |-> counts[1][1], savings |-> Savings(counts[1][1], counts[1][2])]>>
        ELSE <<>>) \o Candidates(Tail(counts))
\* candidates.sort((a, b) => b.savings - a.savings), a stable sort
RECURSIVE InsertBySavings(_, _)
InsertBySavings(sorted, cand) ==
  IF Len(sorted) = 0 THEN <<cand>>
  ELSE IF cand.savings > sorted[1].savings THEN <<cand>> \o sorted
  ELSE <<sorted[1]>> \o InsertBySavings(Tail(sorted), cand)
RECURSIVE SortBySavings(_)
SortBySavings(cs) ==
  IF Len(cs) = 0 THEN <<>>
  ELSE InsertBySavings(SortBySavings(Take(cs, Len(cs) - 1)), cs[Len(cs)])
DictTag(n) == <<"#">> \o DigitsOf(n)
RECURSIVE AssignTags(_, _)
AssignTags(sorted, st) ==
  IF Len(sorted) = 0 THEN st
  ELSE AssignTags(Tail(sorted),
         [dict |-> MapSet(st.dict, sorted[1].value, DictTag(st.counter)),
          counter |-> st.counter + 1])
\* _detectFrequentValues(data) on st = [dict, counter]: valueDictionary is a Map
\* value -> tag
DetectFrequentValues(data, st) ==
  AssignTags(SortBySavings(Candidates(FrequentWalk(data, <<>>))), st)

(***************************************************************************)
(* Encoder: _sp, _serialize, _escVal.  c is the instance as the encoder    *)
(* reads it: [refs, aliases, dict, delimiter, indent, useDictionary]; the  *)
(* Map valueFirstOccurrence is threaded as the set fo of its keys.  Every  *)
(* operator returns [s, fo].                                               *)
(***************************************************************************)
Sp(c, level) == IF c.indent = 0 THEN <<>> ELSE Spaces(c.indent * level)

\* SerializeString without the valueFirstOccurrence test: every occurrence of a
\* dictionary string is rendered as its first one
SerializeStringAlwaysFirst(c, fo, val) ==
  IF MapHas(c.dict, val) /\ c.useDictionary
  THEN [s |-> (IF NeedsQuotes(val) THEN JSONStringify(val) ELSE val)
               \o <<" ">> \o MapGet(c.dict, val),
        fo |-> fo \cup {val}]
  ELSE [s |-> IF NeedsQuotes(val) THEN JSONStringify(val) ELSE val, fo |-> fo]

\* the string branch of _serialize
SerializeString(c, fo, val) ==
  IF MapHas(c.dict, val) /\ c.useDictionary
  THEN IF val \notin fo
       THEN [s |-> (IF NeedsQuotes(val) THEN JSONStringify(val) ELSE val)
                    \o <<" ">> \o MapGet(c.dict, val),
             fo |-> fo \cup {val}]
       ELSE [s |-> MapGet(c.dict, val), fo |-> fo]
  ELSE [s |-> IF NeedsQuotes(val) THEN JSONStringify(val) ELSE val, fo |-> fo]

\* _escVal(v) for the values its callers pass: primitives, and undefined for a
\* missing key (JSON.stringify(undefined) joins as an empty field)
EscVal(c, fo, v) ==
  IF IsNull(v) THEN [s |-> S("null"), fo |-> fo]
  ELSE IF IsBool(v) THEN [s |-> IF v[2] THEN S("true") ELSE S("false"), fo |-> fo]
  ELSE IF IsNum(v) THEN [s |-> NumberToString(v), fo |-> fo]
  ELSE IF IsStr(v)
  THEN LET val == v[2] IN
       IF MapHas(c.dict, val) /\ c.useDictionary
       THEN IF val \notin fo
            THEN [s |-> (IF HasChar(val, {c.delimiter}) \/ NeedsQuotes(val)
                         THEN JSONStringify(val) ELSE val)
                         \o <<" ">> \o MapGet(c.dict, val),
                  fo |-> fo \cup {val}]
            ELSE [s |-> MapGet(c.dict, val), fo |-> fo]
       ELSE [s |-> IF HasChar(val, {c.delimiter, Quote}) \/ NeedsQuotes(val)
                   THEN JSONStringify(val) ELSE val,
             fo |-> fo]
  ELSE [s |-> <<>>, fo |-> fo]

\* vals = keys.map((k) => this._escVal(obj[k]))
RECURSIVE EscFields(_, _, _, _)
EscFields(c, acc, obj, keys) ==
  IF Len(keys) = 0 THEN acc
  ELSE With(EscVal(c, acc.fo, Get(obj, keys[1])), LAMBDA r :
         EscFields(c, [s |-> Append(acc.s, r.s), fo |-> r.fo], obj, Tail(keys)))
\* items = val.map((v) => this._escVal(v))
RECURSIVE EscItems(_, _, _)
EscItems(c, acc, items) ==
  IF Len(items) = 0 THEN acc
  ELSE With(EscVal(c, acc.fo, items[1]), LAMBDA r :
         EscItems(c, [s |-> Append(acc.s, r.s), fo |-> r.fo], Tail(items)))

\* the rows of a table block: s += indent + vals.join(delimiter) + "\n"
RECURSIVE SerializeRows(_, _, _, _, _)
SerializeRows(c, acc, objs, keys, indent) ==
  IF Len(objs) = 0 THEN acc
  ELSE With(EscFields(c, [s |-> <<>>, fo |-> acc.fo], objs[1], keys), LAMBDA r :
         SerializeRows(c,
           [s |-> acc.s \o indent \o Join(r.s, <<c.delimiter>>) \o <<"\n">>, fo |-> r.fo],
           Tail(objs), keys, indent))

\* the path flattening loop of _serialize: [path, val]
RECURSIVE Flatten(_, _, _)
\* Flatten that also descends into a mapping with no key, where it finds no value
FlattenThroughEmpty(c, path, currentVal) ==
  IF IsObj(currentVal) /\ Len(currentVal[2]) = 0 THEN [path |-> path, val |-> Null]
  ELSE IF IsObj(currentVal) /\ Len(currentVal[2]) = 1 /\ ~MapHas(c.aliases, currentVal)
  THEN Flatten(c, path \o <<".">> \o currentVal[2][1][1], currentVal[2][1][2])
  ELSE [path |-> path, val |-> currentVal]
Flatten(c, path, currentVal) ==
  IF IsObj(currentVal) /\ Len(currentVal[2]) = 1 /\ ~MapHas(c.aliases, currentVal)
  THEN Flatten(c, path \o <<".">> \o currentVal[2][1][1], currentVal[2][1][2])
  ELSE [path |-> path, val |-> currentVal]

RECURSIVE Serialize(_, _, _, _)
RECURSIVE SerializeListFields(_, _, _, _)
RECURSIVE SerializeListObjects(_, _, _, _)
RECURSIVE SerializeItems(_, _, _, _)
RECURSIVE SerializeEntries(_, _, _, _)

\* the inner loop of the list format of a uniform array with nested values
SerializeListFields(c, acc, pairs, level) ==
  IF Len(pairs) = 0 THEN acc
  ELSE With(Serialize(c, acc.fo, pairs[1][2], level + 2), LAMBDA r :
         SerializeListFields(c,
           [s |-> acc.s \o Sp(c, level + 1) \o pairs[1][1] \o <<":">> \o r.s \o <<"\n">>,
            fo |-> r.fo],
           Tail(pairs), level))
\* the outer loop: s += indent + "- \n", then the element's own keys
SerializeListObjects(c, acc, objs, level) ==
  IF Len(objs) = 0 THEN acc
  ELSE With(SerializeListFields(c,
              [s |-> acc.s \o Sp(c, level) \o S("- \n"), fo |-> acc.fo], objs[1][2], level),
            LAMBDA next : SerializeListObjects(c, next, Tail(objs), level))
\* the complex array: s += indent + "- " + _serialize(item, level + 1).trim() + "\n"
SerializeItems(c, acc, items, level) ==
  IF Len(items) = 0 THEN acc
  ELSE With(Serialize(c, acc.fo, items[1], level + 1), LAMBDA r :
         SerializeItems(c,
           [s |-> acc.s \o Sp(c, level) \o S("- ") \o Trim(r.s) \o <<"\n">>, fo |-> r.fo],
           Tail(items), level))
\* the entries of an object, with path flattening
SerializeEntries(c, acc, pairs, level) ==
  IF Len(pairs) = 0 THEN acc
  ELSE LET f == Flatten(c, pairs[1][1], pairs[1][2])
           key == IF HasChar(f.path, ControlChars) THEN JSONStringify(f.path) ELSE f.path
       IN With(Serialize(c, acc.fo, f.val, level + 1), LAMBDA r :
            SerializeEntries(c,
              [s |-> acc.s \o Sp(c, level) \o key \o <<":">>
                     \o (IF ~HasChar(r.s, {"\n"}) /\ HasChar(r.s, ControlChars)
                         THEN JSONStringify(r.s) ELSE r.s)
                     \o <<"\n">>,
               fo |-> r.fo],
              Tail(pairs), level))

\* _serialize(val, level)
Serialize(c, fo, val, level) ==
  IF IsNull(val) \/ val = Undefined THEN [s |-> S("null"), fo |-> fo]
  ELSE IF IsBool(val) THEN [s |-> IF val[2] THEN S("true") ELSE S("false"), fo |-> fo]
  ELSE IF IsNum(val) THEN [s |-> NumberToString(val), fo |-> fo]
  ELSE IF IsStr(val) THEN SerializeString(c, fo, val[2])
  ELSE IF IsArr(val)
  THEN IF Len(val[2]) = 0 THEN [s |-> S("[]"), fo |-> fo]
       ELSE IF IsUniformObjects(val[2])
       THEN LET keys == GetMostCommonKeys(val[2]).keys
                signature == Join(keys, <<"|">>)
                allPrimitive ==
                  \A i \in 1..Len(val[2]) : \A j \in 1..Len(keys) :
                     LET v == Get(val[2][i], keys[j]) IN v = Undefined \/ IsPrimitive(v)
                allHaveOnlyTheseKeys ==
                  \A i \in 1..Len(val[2]) : \A j \in 1..Len(val[2][i][2]) :
                     \E k \in 1..Len(keys) : keys[k] = val[2][i][2][j][1]
                marker == IF MapHas(c.refs, signature)
                          THEN <<"$">> \o MapGet(c.refs, signature).name
                          ELSE <<"@">> \o Join(keys, <<c.delimiter>>)
            IN IF allPrimitive /\ allHaveOnlyTheseKeys
               THEN LET r == SerializeRows(c,
                               [s |-> <<"[">> \o DigitsOf(Len(val[2])) \o <<"]">> \o marker \o <<"\n">>,
                                fo |-> fo],
                               val[2], keys, Sp(c, level))
                    IN [s |-> TrimEnd(r.s), fo |-> r.fo]
               ELSE LET r == SerializeListObjects(c, [s |-> <<"\n">>, fo |-> fo], val[2], level)
                    IN [s |-> TrimEnd(r.s), fo |-> r.fo]
       ELSE IF \A i \in 1..Len(val[2]) : IsPrimitive(val[2][i])
       THEN LET r == EscItems(c, [s |-> <<>>, fo |-> fo], val[2])
            IN [s |-> <<"[">> \o Join(r.s, <<c.delimiter>>) \o <<"]">>, fo |-> r.fo]
       ELSE LET r == SerializeItems(c, [s |-> <<"\n">>, fo |-> fo], val[2], level)
            IN [s |-> TrimEnd(r.s), fo |-> r.fo]
  ELSE IF Len(val[2]) = 0 THEN [s |-> S("{}"), fo |-> fo]
  ELSE IF MapHas(c.aliases, val) THEN [s |-> MapGet(c.aliases, val), fo |-> fo]
  ELSE LET r == SerializeEntries(c, [s |-> IF level = 0 THEN <<>> ELSE <<"\n">>, fo |-> fo],
                                 val[2], level)
       IN [s |-> TrimEnd(r.s), fo |-> r.fo]

(***************************************************************************)
(* Decoder.  p is the instance as the parser reads it: [structureDefs,     *)
(* parsedAliases, delimiter], each table a record [defined, map] (a fresh  *)
(* instance has no such field: defined = FALSE).  d = [dict, err] is       *)
(* threaded through every call: dict is this.parsedValueDict, which        *)
(* _parseVal writes, and err records a thrown exception (SyntaxError of    *)
(* JSON.parse, TypeError); after a throw nothing more is written.          *)
(* Line indices are 1-based.  A parser returns [value, nextIdx, d]; a loop *)
(* threads such a record st, value being the object or the elements built  *)
(* so far and nextIdx the loop index i.                                    *)
(***************************************************************************)
NoTable == [defined |-> FALSE, map |-> <<>>]
Throw(d) == [d EXCEPT !.err = TRUE]

\* _getIndent(line); lines[i] beyond the end is undefined
GetIndent(lines, i) ==
  IF i > Len(lines) \/ Trim(lines[i]) = <<>> THEN -1
  ELSE Len(lines[i]) - Len(TrimStart(lines[i]))

\* _parseCsv(str): the loop from position i with [vals, curr, inQuotes]
RECURSIVE ParseCsvFrom(_, _, _, _)
ParseCsvFrom(delimiter, str, i, st) ==
  IF i > Len(str) THEN Append(st.vals, st.curr)
  ELSE LET ch == str[i] IN
       IF ch = Quote /\ (i = 1 \/ str[i - 1] # BackSlash)
       THEN IF st.inQuotes /\ i < Len(str) /\ str[i + 1] = Quote
            THEN ParseCsvFrom(delimiter, str, i + 2, [st EXCEPT !.curr = Append(@, Quote)])
            ELSE ParseCsvFrom(delimiter, str, i + 1,
                              [st EXCEPT !.curr = Append(@, ch), !.inQuotes = ~@])
       ELSE IF ch = delimiter /\ ~st.inQuotes
       THEN ParseCsvFrom(delimiter, str, i + 1,
                         [st EXCEPT !.vals = Append(@, st.curr), !.curr = <<>>])
       ELSE ParseCsvFrom(delimiter, str, i + 1, [st EXCEPT !.curr = Append(@, ch)])
ParseCsv(delimiter, str) ==
  ParseCsvFrom(delimiter, str, 1, [vals |-> <<>>, curr |-> <<>>, inQuotes |-> FALSE])

\* str.match(/^(.+?)\s+(#\d+)$/) on a trimmed str: [matched, actualValue, tag]
\* h is the position of the last "#" and q that of the last character before
\* it that is not white space, 0 when there is none
InlineMatch(str) ==
  With(MaxOf({0} \cup {i \in 1..Len(str) : str[i] = "#"}), LAMBDA h :
    With(MaxOf({0} \cup {i \in 1..(h - 1) : str[i] \notin WhiteSpace}), LAMBDA q :
      IF /\ h > 0
         /\ h < Len(str)
         /\ AllDigits(From(str, h + 1))
         /\ q >= 1
         /\ q < h - 1
         /\ ~HasChar(Take(str, q), {"\n", "\r"})
      THEN [matched |-> TRUE, actualValue |-> Take(str, q), tag |-> From(str, h)]
      ELSE [matched |-> FALSE, actualValue |-> <<>>, tag |-> <<>>]))

RECURSIVE ParseVal(_, _, _)
\* vals.map((v) => this._parseVal(v))
RECURSIVE ParseVals(_, _, _)
ParseVals(p, acc, vals) ==
  IF Len(vals) = 0 THEN acc
  ELSE With(ParseVal(p, acc.d, vals[1]), LAMBDA r :
         ParseVals(p, [value |-> Append(acc.value, r.value), d |-> r.d], Tail(vals)))

\* _parseVal(str): [value, d]
ParseVal(p, d, raw) ==
  With(Trim(raw), LAMBDA str :
    With(InlineMatch(str), LAMBDA m :
      IF str = S("null") THEN [value |-> Null, d |-> d]
      ELSE IF str = S("true") THEN [value |-> Bool(TRUE), d |-> d]
      ELSE IF str = S("false") THEN [value |-> Bool(FALSE), d |-> d]
      ELSE IF str = S("[]") THEN [value |-> Arr(<<>>), d |-> d]
      ELSE IF str = S("{}") THEN [value |-> Obj(<<>>), d |-> d]
      ELSE IF StartsWith(str, <<"#">>) /\ d.dict.defined /\ MapHas(d.dict.map, str)
      THEN [value |-> Str(MapGet(d.dict.map, str)), d |-> d]
      ELSE IF m.matched /\ d.dict.defined
      THEN With(IF StartsWith(m.actualValue, <<Quote>>) THEN JSONParse(m.actualValue)
                ELSE [ok |-> TRUE, value |-> m.actualValue],
                LAMBDA actual :
                  IF ~actual.ok THEN [value |-> Null, d |-> Throw(d)]
                  ELSE [value |-> Str(actual.value),
                        d |-> IF MapHas(d.dict.map, m.tag) \/ d.err THEN d
                              ELSE [d EXCEPT !.dict.map = MapSet(@, m.tag, actual.value)]])
      ELSE IF StartsWith(str, S("&obj")) /\ p.parsedAliases.defined
              /\ MapHas(p.parsedAliases.map, str)
      THEN [value |-> MapGet(p.parsedAliases.map, str), d |-> d]
      ELSE IF StartsWith(str, <<"[">>) /\ EndsWith(str, <<"]">>)
      THEN IF Trim(SubSeq(str, 2, Len(str) - 1)) = <<>> THEN [value |-> Arr(<<>>), d |-> d]
           ELSE With(ParseVals(p, [value |-> <<>>, d |-> d],
                               ParseCsv(p.delimiter, Trim(SubSeq(str, 2, Len(str) - 1)))),
                     LAMBDA vals : [value |-> Arr(vals.value), d |-> vals.d])
      ELSE IF StartsWith(str, <<Quote>>)
      THEN With(JSONParse(str), LAMBDA parsed :
             [value |-> Str(IF parsed.ok THEN parsed.value ELSE str), d |-> d])
      ELSE IF LooksNumeric(str) THEN [value |-> ParseFloat(str), d |-> d]
      ELSE [value |-> Str(str), d |-> d]))

\* obj[k] = v on an object or, inside _deepMerge, on an array (an index key
\* sets the element, any other key leaves the elements as they are)
IsIndexKey(k) == Len(k) > 0 /\ AllDigits(k) /\ (Len(k) = 1 \/ k[1] # "0")
Assign(target, k, v) ==
  IF IsObj(target) THEN Put(target, k, v)
  ELSE IF IsArr(target) /\ IsIndexKey(k)
  THEN LET n == NatOf(k) + 1
       IN Arr([i \in 1..(IF n > Len(target[2]) THEN n ELSE Len(target[2])) |->
                 IF i = n THEN v ELSE IF i <= Len(target[2]) THEN target[2][i] ELSE Undefined])
  ELSE target
\* target[k]
Member(target, k) ==
  IF IsObj(target) THEN Get(target, k)
  ELSE IF IsArr(target) /\ IsIndexKey(k) /\ NatOf(k) < Len(target[2]) THEN target[2][NatOf(k) + 1]
  ELSE Undefined
\* !x
Falsy(v) ==
  \/ v = Undefined
  \/ IsNull(v)
  \/ (IsBool(v) /\ ~v[2])
  \/ (IsNum(v) /\ v[2] = 0)
  \/ (IsStr(v) /\ Len(v[2]) = 0)

\* a merge in which the incoming mapping replaces the existing one
DeepMergeOverwrite(target, source) == [value |-> source, err |-> FALSE]

\* _deepMerge(target, source): [value, err], value the target after the call; an
\* assignment to a property of a primitive target throws a TypeError (strict mode)
RECURSIVE DeepMerge(_, _)
RECURSIVE DeepMergeKeys(_, _, _)
DeepMergeKeys(acc, source, i) ==
  IF i > Len(source[2]) \/ acc.err THEN acc
  ELSE LET key == source[2][i][1]
           sv == source[2][i][2]
       IN IF IsPrimitive(acc.value) THEN [acc EXCEPT !.err = TRUE]
          ELSE IF IsObj(sv)
          THEN LET t1 == IF Falsy(Member(acc.value, key))
                         THEN Assign(acc.value, key, Obj(<<>>)) ELSE acc.value
                   sub == DeepMerge(Member(t1, key), sv)
               IN DeepMergeKeys([value |-> IF IsPrimitive(Member(t1, key)) THEN t1
                                           ELSE Assign(t1, key, sub.value),
                                 err |-> sub.err],
                                source, i + 1)
          ELSE DeepMergeKeys([acc EXCEPT !.value = Assign(@, key, sv)], source, i + 1)
DeepMerge(target, source) == DeepMergeKeys([value |-> target, err |-> FALSE], source, 1)

\* the [N] prefix of a table header: content.slice(endBracket + 1) when endBracket > 0
StripLength(content) ==
  IF StartsWith(content, <<"[">>) /\ IndexOf(content, "]") > 1
  THEN From(content, IndexOf(content, "]") + 1)
  ELSE content
\* the test for a uniform array marker used by _parseValue and _parseObject
IsInlineTableMarker(s) ==
  StartsWith(s, <<"@">>) \/ (StartsWith(s, <<"[">>) /\ Includes(s, S("]@")))
\* content.slice(0, colonIdx).trim() and content.slice(colonIdx + 1).trim()
KeyOf(content) == Trim(Take(content, IndexOf(content, ":") - 1))
RestOf(content) == Trim(From(content, IndexOf(content, ":") + 1))
\* value = this._parseVal(str); i++
InlineValue(v, i) == [value |-> v.value, nextIdx |-> i, d |-> v.d]

\* keys.forEach((k, idx) => { if (val !== undefined && val !== "") obj[k] = _parseVal(val) })
RECURSIVE RowObject(_, _, _, _, _)
RowObject(p, acc, keys, vals, idx) ==
  IF idx > Len(keys) THEN acc
  ELSE IF idx <= Len(vals) /\ vals[idx] # <<>>
       THEN With(ParseVal(p, acc.d, vals[idx]), LAMBDA r :
              RowObject(p, [value |-> Put(acc.value, keys[idx], r.value), d |-> r.d],
                        keys, vals, idx + 1))
       ELSE RowObject(p, acc, keys, vals, idx + 1)
CsvRow(p, d, keys, line) ==
  RowObject(p, [value |-> Obj(<<>>), d |-> d], keys, ParseCsv(p.delimiter, Trim(line)), 1)

\* the row loop of _parseObject: while (getIndent(lines[i]) > indent) over CSV
\* rows; st.value holds the elements of arr
RECURSIVE ObjectRows(_, _, _, _, _)
ObjectRows(p, st, lines, indent, keys) ==
  IF st.nextIdx <= Len(lines) /\ GetIndent(lines, st.nextIdx) > indent
  THEN With(CsvRow(p, st.d, keys, lines[st.nextIdx]), LAMBDA r :
         ObjectRows(p, [value |-> Append(st.value, r.value), nextIdx |-> st.nextIdx + 1,
                        d |-> r.d],
                    lines, indent, keys))
  ELSE [st EXCEPT !.value = Arr(@)]

\* lineContent.slice(2).split(/\s+(?=\w+:)/): split at every maximal white space
\* run that is followed by word characters and a colon
WordColonAt(s, i) ==
  \E j \in i..Len(s) : s[j] = ":" /\ j > i /\ \A k \in i..(j - 1) : s[k] \in WordChars
RECURSIVE SplitComplexRow(_, _, _)
SplitComplexRow(s, i, curr) ==
  IF i > Len(s) THEN <<curr>>
  ELSE IF s[i] \in WhiteSpace
       THEN LET rest == {j \in i..Len(s) : s[j] \notin WhiteSpace}
                e == IF rest = {} THEN Len(s) + 1 ELSE MinOf(rest)
            IN IF e <= Len(s) /\ WordColonAt(s, e)
               THEN <<curr>> \o SplitComplexRow(s, e, <<>>)
               ELSE SplitComplexRow(s, e, curr \o SubSeq(s, i, e - 1))
       ELSE SplitComplexRow(s, i + 1, Append(curr, s[i]))
\* for (const part of parts) { if (cIdx > 0) obj[k] = _parseVal(v) }
RECURSIVE ComplexRow(_, _, _)
ComplexRow(p, acc, parts) ==
  IF Len(parts) = 0 THEN acc
  ELSE LET cIdx == IndexOf(parts[1], ":")
       IN IF cIdx > 1
          THEN With(ParseVal(p, acc.d, From(parts[1], cIdx + 1)), LAMBDA r :
                 ComplexRow(p,
                   [value |-> Put(acc.value, Take(parts[1], cIdx - 1), r.value), d |-> r.d],
                   Tail(parts)))
          ELSE ComplexRow(p, acc, Tail(parts))

\* the row loop of _parseUniformArray: a "- k:v k:v" row or a CSV row; st.value
\* holds the elements of arr
RECURSIVE UniformRows(_, _, _, _, _)
UniformRows(p, st, lines, parentIndent, keys) ==
  IF st.nextIdx > Len(lines) \/ GetIndent(lines, st.nextIdx) <= parentIndent
  THEN [st EXCEPT !.value = Arr(@)]
  ELSE LET lineContent == Trim(lines[st.nextIdx])
       IN With(IF StartsWith(lineContent, S("- "))
               THEN ComplexRow(p, [value |-> Obj(<<>>), d |-> st.d],
                               SplitComplexRow(From(lineContent, 3), 1, <<>>))
               ELSE CsvRow(p, st.d, keys, lineContent),
               LAMBDA r :
                 UniformRows(p, [value |-> Append(st.value, r.value),
                                 nextIdx |-> st.nextIdx + 1, d |-> r.d],
                             lines, parentIndent, keys))

\* _parseUniformArray that returns its own line as the next one when it has no keys
ParseUniformArrayStay(p, d, lines, startIdx, parentIndent) ==
  LET content == StripLength(Trim(lines[startIdx]))
      refName == From(content, 2)
      keys == IF StartsWith(content, <<"@">>) THEN Split(From(content, 2), p.delimiter)
              ELSE IF StartsWith(content, <<"$">>) /\ MapHas(p.structureDefs.map, refName)
              THEN MapGet(p.structureDefs.map, refName)
              ELSE <<>>
  IN IF StartsWith(content, <<"$">>) /\ ~p.structureDefs.defined
     THEN [value |-> Arr(<<>>), nextIdx |-> startIdx + 1, d |-> Throw(d)]
     ELSE IF Len(keys) = 0 THEN [value |-> Arr(<<>>), nextIdx |-> startIdx, d |-> d]
     ELSE UniformRows(p, [value |-> <<>>, nextIdx |-> startIdx + 1, d |-> d], lines,
                      parentIndent, keys)

\* _parseUniformArray(lines, startIdx, parentIndent); structureDefs.get on an
\* instance that has no structureDefs throws a TypeError.  keys is <<>> where
\* the code has no keys (undefined)
ParseUniformArray(p, d, lines, startIdx, parentIndent) ==
  LET content == StripLength(Trim(lines[startIdx]))
      refName == From(content, 2)
      keys == IF StartsWith(content, <<"@">>) THEN Split(From(content, 2), p.delimiter)
              ELSE IF StartsWith(content, <<"$">>) /\ MapHas(p.structureDefs.map, refName)
              THEN MapGet(p.structureDefs.map, refName)
              ELSE <<>>
  IN IF StartsWith(content, <<"$">>) /\ ~p.structureDefs.defined
     THEN [value |-> Arr(<<>>), nextIdx |-> startIdx + 1, d |-> Throw(d)]
     ELSE IF Len(keys) = 0 THEN [value |-> Arr(<<>>), nextIdx |-> startIdx + 1, d |-> d]
     ELSE UniformRows(p, [value |-> <<>>, nextIdx |-> startIdx + 1, d |-> d], lines,
                      parentIndent, keys)

\* for (j = parts.length - 1; j >= 1; j--) value = { [parts[j]]: value }
RECURSIVE Nest(_, _)
Nest(parts, value) ==
  IF Len(parts) = 0 THEN value
  ELSE Obj(<< <<parts[1], Nest(Tail(parts), value)>> >>)

RECURSIVE ParseValue(_, _, _, _, _)
RECURSIVE ParseObjectLoop(_, _, _, _)
RECURSIVE ParseListLoop(_, _, _, _, _)
RECURSIVE ListObjectLoop(_, _, _, _, _)

\* "Value is on next lines": the line after a key or a bullet with nothing
\* after it, as a nested block or null
NestedOrNull(p, d, lines, i, indent) ==
  IF i <= Len(lines) /\ GetIndent(lines, i) > indent
  THEN ParseValue(p, d, lines, i, indent)
  ELSE [value |-> Null, nextIdx |-> i, d |-> d]

\* the while loop of _parseObject from line st.nextIdx, st.value holding obj; a
\* throw ends it.  keys is <<>> where the code has no keys (undefined)
ParseObjectLoop(p, st, lines, parentIndent) ==
  IF st.d.err \/ st.nextIdx > Len(lines) \/ GetIndent(lines, st.nextIdx) <= parentIndent
  THEN st
  ELSE
  LET i == st.nextIdx
      indent == GetIndent(lines, i)
      content == Trim(lines[i])
      key == KeyOf(content)
      rest == RestOf(content)
      quotedKey == StartsWith(key, <<Quote>>)
  IN IF IndexOf(content, ":") <= 1
     THEN ParseObjectLoop(p, [st EXCEPT !.nextIdx = @ + 1], lines, parentIndent)
     ELSE IF quotedKey /\ ~JSONParse(key).ok THEN [st EXCEPT !.d = Throw(@)]
     ELSE IF HasChar(key, {"."}) /\ ~quotedKey
     THEN With(IF rest = <<>> THEN NestedOrNull(p, st.d, lines, i + 1, indent)
               ELSE InlineValue(ParseVal(p, st.d, rest), i + 1),
               LAMBDA r :
                 LET parts == Split(key, ".")
                     value == Nest(Tail(parts), r.value)
                     old == Get(st.value, parts[1])
                     merged == DeepMerge(old, value)
                 IN ParseObjectLoop(p,
                      IF IsObj(old)
                      THEN [value |-> Put(st.value, parts[1], merged.value),
                            nextIdx |-> r.nextIdx,
                            d |-> IF merged.err THEN Throw(r.d) ELSE r.d]
                      ELSE [r EXCEPT !.value = Put(st.value, parts[1], value)],
                      lines, parentIndent))
     ELSE LET isRef == StartsWith(rest, <<"$">>) /\ Len(rest) > 1 /\ rest[2] # "{"
              keys == IF IsInlineTableMarker(rest)
                      THEN Split(From(StripLength(rest), 2), p.delimiter)
                      ELSE IF isRef /\ MapHas(p.structureDefs.map, From(rest, 2))
                      THEN MapGet(p.structureDefs.map, From(rest, 2))
                      ELSE <<>>
              entry ==
                IF rest = <<>> THEN NestedOrNull(p, st.d, lines, i + 1, indent)
                ELSE IF isRef /\ ~p.structureDefs.defined
                THEN [value |-> Null, nextIdx |-> i + 1, d |-> Throw(st.d)]
                ELSE IF Len(keys) > 0
                THEN ObjectRows(p, [value |-> <<>>, nextIdx |-> i + 1, d |-> st.d], lines, indent,
                                keys)
                ELSE InlineValue(ParseVal(p, st.d, rest), i + 1)
          IN ParseObjectLoop(p,
               [entry EXCEPT !.value = Put(st.value, IF quotedKey THEN JSONParse(key).value ELSE key, @)],
               lines, parentIndent)

\* the inner while loop of _parseList for "- key:value" followed by deeper
\* lines, from line st.nextIdx; st.value holds obj
ListObjectLoop(p, st, lines, indent, nextLineIndent) ==
  IF /\ st.nextIdx <= Len(lines)
     /\ GetIndent(lines, st.nextIdx) > indent
     /\ GetIndent(lines, st.nextIdx) = nextLineIndent
     /\ IndexOf(Trim(lines[st.nextIdx]), ":") > 1
  THEN LET i == st.nextIdx
           lineContent == Trim(lines[i])
           rest2 == RestOf(lineContent)
           r == IF rest2 = <<>> THEN NestedOrNull(p, st.d, lines, i + 1, GetIndent(lines, i))
                ELSE InlineValue(ParseVal(p, st.d, rest2), i + 1)
       IN ListObjectLoop(p, [r EXCEPT !.value = Put(st.value, KeyOf(lineContent), @)],
                         lines, indent, nextLineIndent)
  ELSE st

\* the while loop of _parseList from line st.nextIdx; st.value holds the
\* elements of arr
ParseListLoop(p, st, lines, parentIndent, listIndent) ==
  IF \/ st.nextIdx > Len(lines)
     \/ GetIndent(lines, st.nextIdx) <= parentIndent
     \/ (Trim(lines[st.nextIdx]) # <<"-">> /\ ~StartsWith(Trim(lines[st.nextIdx]), S("- ")))
     \/ GetIndent(lines, st.nextIdx) # listIndent
  THEN [st EXCEPT !.value = Arr(@)]
  ELSE
  LET i == st.nextIdx
      indent == GetIndent(lines, i)
      val == Trim(From(Trim(lines[i]), 3))
      colonIdx == IndexOf(val, ":")
      nextLineIndent == IF i + 1 <= Len(lines) THEN GetIndent(lines, i + 1) ELSE 0
      property == With(ParseVal(p, st.d, RestOf(val)), LAMBDA v :
                    [value |-> Obj(<< <<KeyOf(val), v.value>> >>), d |-> v.d])
      r == IF val = <<>> THEN NestedOrNull(p, st.d, lines, i + 1, indent)
           ELSE IF nextLineIndent > indent
           THEN ListObjectLoop(p,
                  InlineValue(IF colonIdx > 1 THEN property
                              ELSE [value |-> Obj(<<>>), d |-> st.d], i + 1),
                  lines, indent, nextLineIndent)
           ELSE IF colonIdx > 1 /\ ~StartsWith(val, <<"[">>) /\ ~StartsWith(val, <<"{">>)
           THEN InlineValue(property, i + 1)
           ELSE InlineValue(ParseVal(p, st.d, val), i + 1)
  IN ParseListLoop(p, [r EXCEPT !.value = Append(st.value, @)], lines, parentIndent, listIndent)

\* _parseValue(lines, idx, parentIndent)
ParseValue(p, d, lines, idx, parentIndent) ==
  IF idx > Len(lines) THEN [value |-> Null, nextIdx |-> idx, d |-> d]
  ELSE
  LET content == Trim(lines[idx])
  IN IF content = <<>> THEN [value |-> Null, nextIdx |-> idx + 1, d |-> d]
     ELSE IF content = <<"-">> \/ StartsWith(content, S("- "))
     THEN ParseListLoop(p, [value |-> <<>>, nextIdx |-> idx, d |-> d], lines, parentIndent,
                        GetIndent(lines, idx))
     ELSE IF \/ IsInlineTableMarker(content)
             \/ /\ StartsWith(content, <<"$">>)
                /\ ~StartsWith(content, S("$def"))
                /\ ~StartsWith(content, S("$data"))
     THEN ParseUniformArray(p, d, lines, idx, parentIndent)
     ELSE IF IndexOf(content, ":") > 1 /\ GetIndent(lines, idx) > parentIndent
     THEN ParseObjectLoop(p, [value |-> Obj(<<>>), nextIdx |-> idx, d |-> d], lines, parentIndent)
     ELSE InlineValue(ParseVal(p, d, content), idx + 1)

\* _parseLines(lines, startIdx), startIdx 1-based
ParseLines(p, d, lines, startIdx) == ParseValue(p, d, lines, startIdx, -1)

(***************************************************************************)
(* compress and decompress on an instance                                  *)
(***************************************************************************)
\* the header lines of compress: one per structure reference, one per alias
RECURSIVE RefLines(_, _)
RefLines(c, refs) ==
  IF Len(refs) = 0 THEN <<>>
  ELSE Sp(c, 1) \o refs[1][2].name \o S(":@") \o Join(refs[1][2].keys, <<c.delimiter>>)
       \o <<"\n">> \o RefLines(c, Tail(refs))
\* each alias is serialized at level 2 with this.objectAliases replaced by an empty Map
RECURSIVE AliasLines(_, _, _)
AliasLines(c, acc, aliases) ==
  IF Len(aliases) = 0 THEN acc
  ELSE With(Serialize([c EXCEPT !.aliases = <<>>], acc.fo, aliases[1][1], 2), LAMBDA r :
         AliasLines(c,
           [s |-> acc.s \o Sp(c, 1) \o aliases[1][2] \o <<":">> \o r.s \o <<"\n">>, fo |-> r.fo],
           Tail(aliases)))

\* serialized.replace(/^\n/, "").replace(/\n+$/, "")
RECURSIVE StripTrailingNewlines(_)
StripTrailingNewlines(s) ==
  IF Len(s) > 0 /\ s[Len(s)] = "\n" THEN StripTrailingNewlines(Take(s, Len(s) - 1)) ELSE s
StripBody(s) ==
  StripTrailingNewlines(IF Len(s) > 0 /\ s[1] = "\n" THEN Tail(s) ELSE s)

\* the state compress starts from after its seven reset statements
Cleared ==
  [structureRefs |-> <<>>, objectAliases |-> <<>>, valueDictionary |-> <<>>,
   valueFirstOccurrence |-> {}, refCounter |-> 0, aliasCounter |-> 0, dictCounter |-> 0]

\* the seven reset statements at the head of compress, on the encoder fields e
ClearKeeping(e) == e
Clear(e) == Cleared

\* a first pass in which useDictionary alone decides the value detection
FirstPassDictionary(e, o, data) ==
  IF o.useDictionary
  THEN LET r3 == DetectFrequentValues(data, [dict |-> e.valueDictionary,
                                             counter |-> e.dictCounter])
       IN [e EXCEPT !.valueDictionary = r3.dict, !.dictCounter = r3.counter]
  ELSE e
\* the first pass of compress on the encoder fields e, under the options o =
\* [indent, delimiter, useReferences, useDictionary]: the fields after it
FirstPass(e, o, data) ==
  IF o.useReferences
  THEN LET r1 == AutoDetectPatterns(data, [refs |-> e.structureRefs, counter |-> e.refCounter])
           r2 == DetectRepeatedObjects(data, [counts |-> <<>>, aliases |-> e.objectAliases,
                                              counter |-> e.aliasCounter])
           r3 == IF o.useDictionary
                 THEN DetectFrequentValues(data, [dict |-> e.valueDictionary,
                                                  counter |-> e.dictCounter])
                 ELSE [dict |-> e.valueDictionary, counter |-> e.dictCounter]
       IN [e EXCEPT !.structureRefs = r1.refs, !.refCounter = r1.counter,
                    !.objectAliases = r2.aliases, !.aliasCounter = r2.counter,
                    !.valueDictionary = r3.dict, !.dictCounter = r3.counter]
  ELSE e
\* compress(data) from the encoder fields e: the fields after the call and the
\* text returned
CompressFrom(e, o, data) ==
  With(FirstPass(e, o, data), LAMBDA a :
    LET c == [refs |-> a.structureRefs, aliases |-> a.objectAliases, dict |-> a.valueDictionary,
              delimiter |-> o.delimiter, indent |-> o.indent, useDictionary |-> o.useDictionary]
        hasDefs == Len(a.structureRefs) > 0 \/ Len(a.objectAliases) > 0
    IN With(IF hasDefs
            THEN With(AliasLines(c, [s |-> <<>>, fo |-> a.valueFirstOccurrence], a.objectAliases),
                      LAMBDA al :
                        [s |-> S("$def:\n") \o RefLines(c, c.refs) \o al.s \o S("$data:\n"),
                         fo |-> al.fo])
            ELSE [s |-> <<>>, fo |-> a.valueFirstOccurrence],
            LAMBDA header :
              With(Serialize(c, header.fo, data, IF hasDefs THEN 1 ELSE 0), LAMBDA body :
                [structureRefs |-> a.structureRefs, refCounter |-> a.refCounter,
                 objectAliases |-> a.objectAliases, aliasCounter |-> a.aliasCounter,
                 valueDictionary |-> a.valueDictionary, dictCounter |-> a.dictCounter,
                 valueFirstOccurrence |-> body.fo,
                 text |-> header.s \o StripBody(body.s)])))

\* line.length - line.trimStart().length
RawIndent(line) == Len(line) - Len(TrimStart(line))
IsDataMarker(line) == Trim(line) = S("$data:")

\* the lines of a multiline alias definition: [objLines, i]
RECURSIVE AliasBlock(_, _, _, _)
AliasBlock(lines, i, indent, objLines) ==
  IF i <= Len(lines) /\ ~IsDataMarker(lines[i]) /\ RawIndent(lines[i]) > indent
  THEN AliasBlock(lines, i + 1, indent, Append(objLines, lines[i]))
  ELSE [objLines |-> objLines, i |-> i]

\* the while loop over the $def: section of decompress.  h = [structureDefs,
\* objectAliases, valueDictionary, d, i]: the three local Maps, the threaded
\* this.parsedValueDict of the instance (not the local Map) and the line index
RECURSIVE HeaderLoop(_, _, _)
HeaderLoop(p, h, lines) ==
  IF ~(h.i <= Len(lines) /\ ~IsDataMarker(lines[h.i])) \/ h.d.err THEN h
  ELSE
  LET trimmed == Trim(lines[h.i])
      refName == KeyOf(trimmed)
      rest == RestOf(trimmed)
      skip == [h EXCEPT !.i = @ + 1]
      b == AliasBlock(lines, h.i + 1, RawIndent(lines[h.i]), <<>>)
  IN IF IndexOf(trimmed, ":") <= 1 THEN HeaderLoop(p, skip, lines)
     ELSE IF StartsWith(rest, <<"@">>)
     THEN HeaderLoop(p, [skip EXCEPT !.structureDefs =
                            MapSet(@, refName, Split(From(rest, 2), p.delimiter))], lines)
     ELSE IF StartsWith(refName, <<"#">>)
     THEN IF ~StartsWith(rest, <<Quote>>)
          THEN HeaderLoop(p, [skip EXCEPT !.valueDictionary = MapSet(@, refName, rest)], lines)
          ELSE IF JSONParse(rest).ok
          THEN HeaderLoop(p, [skip EXCEPT !.valueDictionary =
                                 MapSet(@, refName, JSONParse(rest).value)], lines)
          ELSE [h EXCEPT !.d = Throw(@)]
     ELSE IF StartsWith(refName, S("&obj"))
     THEN IF rest = <<>>
          THEN With(ParseLines(p, h.d, b.objLines, 1), LAMBDA r :
                 HeaderLoop(p, [h EXCEPT !.objectAliases = MapSet(@, refName, r.value),
                                         !.d = r.d, !.i = b.i], lines))
          ELSE With(ParseVal(p, h.d, rest), LAMBDA r :
                 HeaderLoop(p, [skip EXCEPT !.objectAliases = MapSet(@, refName, r.value),
                                            !.d = r.d], lines))
     ELSE HeaderLoop(p, skip, lines)

\* decompress(text) on the decoder fields f = [structureDefs, parsedAliases,
\* parsedValueDict] with the given delimiter: the fields after the call, the
\* value returned and whether the call threw.  The $def: section is parsed
\* while the instance still holds the tables of the call before.
DecompressFrom(f, delimiter, text) ==
  With(Split(text, "\n"), LAMBDA lines :
    LET old == [structureDefs |-> f.structureDefs, parsedAliases |-> f.parsedAliases,
                delimiter |-> delimiter]
        none == [structureDefs |-> <<>>, objectAliases |-> <<>>, valueDictionary |-> <<>>,
                 d |-> [dict |-> f.parsedValueDict, err |-> FALSE], i |-> 0]
    IN With(IF Trim(lines[1]) = S("$def:")
            THEN HeaderLoop(old, [none EXCEPT !.i = 2], lines)
            ELSE none,
            LAMBDA h :
              LET new == [structureDefs |-> [defined |-> TRUE, map |-> h.structureDefs],
                          parsedAliases |-> [defined |-> TRUE, map |-> h.objectAliases],
                          delimiter |-> delimiter]
              IN IF h.d.err
                 THEN [structureDefs |-> f.structureDefs, parsedAliases |-> f.parsedAliases,
                       parsedValueDict |-> h.d.dict, value |-> Undefined, threw |-> TRUE]
                 ELSE With(ParseLines(new, [dict |-> [defined |-> TRUE,
                                                      map |-> h.valueDictionary],
                                            err |-> FALSE],
                                      lines, h.i + 1),
                           LAMBDA r :
                             [structureDefs |-> new.structureDefs,
                              parsedAliases |-> new.parsedAliases,
                              parsedValueDict |-> r.d.dict,
                              value |-> IF r.d.err THEN Undefined ELSE r.value,
                              threw |-> r.d.err])))

(***************************************************************************)
(* Inputs                                                                  *)
(***************************************************************************)
\* bounds of the generated value families and of a run
MaxArrays == 4
MaxRows == 3
MaxCopies == 3
MaxDepth == 3
MaxCalls == 2

KeyN(s, n) == S(s) \o DigitsOf(n)
Row2(id, name) == Obj(<< <<S("id"), Num(id)>>, <<S("name"), Str(name)>> >>)

\* the scenario of the README and of the doc comments of compress and decompress
Users == Obj(<< <<S("users"), Arr(<<Row2(1, S("Alice")), Row2(2, S("Bob"))>>)>> >>)
UsersText == S("users:[2]@id,name\n1,Alice\n2,Bob")

\* m arrays under the keys k1..km, each of n objects with the schema id,name
RefTree(m, n) ==
  Obj([a \in 1..m |->
        <<KeyN("k", a), Arr([r \in 1..n |-> Row2(10 * a + r, KeyN("n", r))])>>])
\* a chain of d single-key objects a, b, c, ... ending in the scalar v
ChainKeys == <<S("a"), S("b"), S("c"), S("d"), S("e")>>
Chain(d, v) == Nest(Take(ChainKeys, d), v)
\* k copies of the object o under the keys x1..xk
Copies(k, o) == Obj([a \in 1..k |-> <<KeyN("x", a), o>>])
\* the string s at k object paths p1.v .. pk.v, beside a number that differs
AtPaths(k, s) ==
  Obj([a \in 1..k |-> <<KeyN("p", a), Obj(<< <<S("v"), Str(s)>>, <<S("n"), Num(a)>> >>)>>])

Small == Obj(<< <<S("a"), Num(1)>>, <<S("b"), Num(2)>> >>)
Unavailable == Obj(<< <<S("status"), Str(S("unavailable"))>>, <<S("code"), Num(503)>> >>)
Tagged == Obj(<< <<S("s"), Str(S("abcdef"))>> >>)
Email == S("alice@example.com")

Scalars == <<Null, Bool(TRUE), Num(1), Num(-20), Normalise(15, 1), Str(S("x")), Str(S("123")),
             Str(S(" 5")), Str(S("hello")), Str(<<>>)>>

Samples ==
  << Users >>
  \o [i \in 1..(MaxArrays * MaxRows) |-> RefTree(((i - 1) \div MaxRows) + 1, ((i - 1) % MaxRows) + 1)]
  \o [i \in 1..(MaxDepth * Len(Scalars)) |->
        Chain(((i - 1) \div Len(Scalars)) + 1, Scalars[((i - 1) % Len(Scalars)) + 1])]
  \o [k \in 1..MaxCopies |-> Copies(k, Small)]
  \o [k \in 1..MaxCopies |-> Copies(k, Unavailable)]
  \o [k \in 1..MaxCopies |-> Copies(k, Tagged)]
  \o [k \in 1..MaxCopies |-> AtPaths(k, Email)]
  \o [k \in 1..MaxCopies |-> AtPaths(k, S("abcdef"))]
  \o [k \in 1..MaxCopies |-> AtPaths(k, S("abcde"))]
  \o << Arr(<<Small, Small>>),
        Arr(<<Num(5), Small, Small>>),
        Obj(<< <<S("a.b"), Num(1)>> >>),
        Obj(<< <<S("a:b"), Obj(<< <<S("c"), Num(1)>> >>)>> >>),
        Arr(<<Str(S("123")), Num(5)>>),
        Arr(<<Obj(<< <<S("id"), Str(S("123"))>> >>), Obj(<< <<S("id"), Str(S("7"))>> >>)>>),
        Obj(<<>>),
        Arr(<<>>),
        Obj(<< <<S("a"), Obj(<<>>)>> >>),
        Obj(<< <<S("a"), Arr(<<>>)>> >>),
        Obj(<< <<S("a"), Obj(<<>>)>>, <<S("b"), Obj(<<>>)>>, <<S("c"), Arr(<<>>)>> >>),
        Arr(<<Null, Null>>),
        Arr(<<Small, Null>>),
        Arr(<<Obj(<<>>), Obj(<<>>)>>),
        Arr(<<Arr(<<Num(1), Null>>), Arr(<<>>), Bool(FALSE)>>),
        Obj(<< <<S("k"), Arr(<<Small, Obj(<< <<S("a"), Num(3)>> >>)>>)>>, <<S("z"), Null>> >>),
        Arr(<<Small, Small, Unavailable, Unavailable>>),
        Obj(<< <<S("x1"), Small>>, <<S("y1"), Tagged>>, <<S("x2"), Small>>, <<S("y2"), Tagged>> >>),
        Obj(<< <<S("k1"), Arr(<<Obj(<< <<S("x"), Num(1)>> >>)>>)>>,
               <<S("k2"), Arr(<<Obj(<< <<S("x"), Num(2)>> >>)>>)>>,
               <<S("k3"), Arr(<<Obj(<< <<S("a"), Num(1)>> >>), Obj(<< <<S("a"), Num(2)>> >>),
                                Obj(<< <<S("b"), Arr(<<Obj(<< <<S("x"), Num(3)>> >>)>>)>> >>)>>)>> >>),
        Obj(<< <<S("k1"), Arr(<<Obj(<< <<S("x"), Num(1)>> >>)>>)>>,
               <<S("k2"), Arr(<<Obj(<< <<S("x"), Num(2)>> >>)>>)>>,
               <<S("k3"), Arr(<<Obj(<< <<S("a"), Arr(<<Obj(<< <<S("x"), Num(3)>> >>)>>)>> >>),
                                Obj(<< <<S("a"), Arr(<<Obj(<< <<S("x"), Num(4)>> >>)>>)>> >>)>>)>> >>),
        Arr(<<Num(5), Small>>),
        Arr(<<Str(S("x")), Row2(1, S("n")), Obj(<< <<S("q"), Bool(TRUE)>> >>)>>),
        Arr(<<Obj(<< <<S("a"), Obj(<< <<S("p"), Num(1)>>, <<S("q"), Num(2)>> >>)>>, <<S("b"), Num(3)>> >>),
              Num(1)>>),
        Arr(<<Obj(<< <<S("a"), Arr(<<Num(1), Num(2)>>)>>, <<S("b"), Num(3)>> >>), Num(1)>>),
        Arr(<<Obj(<< <<S("a"), Arr(<<Row2(1, S("n")), Row2(2, S("m"))>>)>>, <<S("b"), Num(3)>> >>),
              Num(1)>>),
        Obj(<< <<S("k"), Arr(<<Num(5), Small>>)>> >>),
        Arr(<<Num(5), Chain(2, Num(1))>>),
        Arr(<<Num(5), Obj(<< <<S("a"), Chain(1, Num(1))>>, <<S("c"), Num(2)>> >>)>>),
        Arr(<<Small, Obj(<< <<S("b"), Num(3)>>, <<S("a"), Num(4)>> >>)>>),
        Arr(<<Row2(1, S("a,b")), Obj(<< <<S("id"), Str(S("say \"hi\""))>>, <<S("name"), Str(S("a\\b"))>> >>)>>),
        Arr(<<Obj(<< <<S("id"), Str(S("a,b\\"))>>, <<S("name"), Str(S("x"))>> >>), Row2(2, S("y"))>>),
        Obj(<< <<S("k"), Str(S("#0"))>> >> \o AtPaths(2, S("abcdef"))[2]),
        Obj(<< <<S("p1"), Obj(<< <<S("u"), Str(S("abcdef"))>>, <<S("w"), Str(S("ghijkl"))>>, <<S("n"), Num(1)>> >>)>>,
              <<S("p2"), Obj(<< <<S("u"), Str(S("abcdef"))>>, <<S("w"), Str(S("ghijkl"))>>, <<S("n"), Num(2)>> >>)>> >>),
        Obj(<< <<S("p1"), Obj(<< <<S("u"), Str(S("abcdef"))>>, <<S("w"), Str(Email)>>, <<S("n"), Num(1)>> >>)>>,
              <<S("p2"), Obj(<< <<S("u"), Str(S("abcdef"))>>, <<S("w"), Str(Email)>>, <<S("n"), Num(2)>> >>)>> >>),
        Obj(<< <<S("k"), Arr(<<Str(S("abcdef")), Str(S("abcdef"))>>)>>, <<S("a"), Str(S("abcd"))>>, <<S("b"), Str(S("abcd"))>>, <<S("c"), Str(S("abcd"))>> >>),
        Arr(<<Obj(<< <<S("a"), Num(1)>>, <<S("b"), Num(2)>> >>), Obj(<< <<S("c"), Num(1)>> >>), Obj(<< <<S("b"), Num(3)>>, <<S("a"), Num(4)>> >>), Obj(<< <<S("d"), Num(1)>> >>), Obj(<< <<S("a"), Num(5)>>, <<S("b"), Num(6)>> >>)>>),
        Arr(<<Obj(<< <<S("a"), Num(1)>> >>), Obj(<< <<S("b"), Num(2)>> >>)>>),
        Arr(<<Obj(<< <<S("b"), Num(1)>>, <<S("a"), Num(2)>> >>), Obj(<< <<S("a"), Num(3)>>, <<S("b"), Num(4)>> >>)>>),
        Arr(<<Obj(<< <<S("a"), Num(1)>>, <<S("b"), Num(2)>> >>), Obj(<< <<S("a"), Num(3)>>, <<S("b"), Num(4)>> >>), Obj(<< <<S("b"), Num(5)>> >>)>>),
        Arr(<<Obj(<< <<S("a"), Num(1)>> >>), Obj(<< <<S("a"), Num(2)>> >>), Obj(<<>>)>>) >>

Texts ==
  << UsersText,
     S("users:[2]@id,name\n 1,Alice\n 2,Bob"),
     S("a.b.c:1"),
     S("k:abcdef #0"),
     S("$def:\n #0:world\n$data:\nk:#0"),
     S("$def:\n &obj0:\n  s:#0\n$data:\nx:&obj0"),
     S("$def:\n &obj0:\n  status:unavailable #0\n  code:503\n$data:\n x1:&obj0\n x2:&obj0"),
     S("$def:\n $0:@id,name\n$data:\nk:$0\n 1,A"),
     S("$def:\n $0:@id,name\n$data:\nk:[1]$0\n 1,A"),
     S("$def:\n $0:@id,name\n$data:\n[1]$0\n1,A"),
     S("$def:\n $0:@id,name\n$data:\n$0\n1,A"),
     S("$9"),
     S("k:$9"),
     S("k:&obj7"),
     S("k:#7"),
     S("$def:\n &obj0:\n  k:$9\n$data:\nx:&obj0"),
     S("$def:"),
     S("$def:\n $0:@id,name\nk:[1]$0\n 1,A"),
     S("a.b:1\na.b.c:2"),
     S("a.b:0\na.b.c:2"),
     S("a.b:x\na.b.c:2"),
     S("a.b:\"\"\na.b.c:2"),
     S("a.b:true\na.b.c:2"),
     S("a.b:false\na.b.c:2"),
     S("a.b:null\na.b.c:2"),
     S("a.b:1\na.c:2"),
     S("a.b:1\nz:0\na.c:2\na.b:3"),
     S("a:1\n\nb:2"),
     S("items:\n - x:1\n   y:2\n - \n   z:3\nrows:@a,b\n 1,2\n - a:3 b:4") >>

(***************************************************************************)
(* The instance and its calls                                              *)
(***************************************************************************)
VARIABLES
  options,   \* indent, delimiter, useReferences, useDictionary of the constructor
  enc,       \* structureRefs, objectAliases, valueDictionary, valueFirstOccurrence,
             \* refCounter, aliasCounter, dictCounter
  dec,       \* structureDefs, parsedAliases, parsedValueDict
  op,        \* the last call: "new", "compress", "decompress"
  data,      \* the argument of the last compress
  text,      \* the text returned by the last compress or given to the last decompress
  result,    \* the value returned by the last decompress
  threw,     \* whether the last call threw
  own,       \* whether the last call was given what the call before it returned
  calls      \* the number of calls made

vars == <<options, enc, dec, op, data, text, result, threw, own, calls>>

DefaultOptions ==
  [indent |-> 1, delimiter |-> ",", useReferences |-> TRUE, useDictionary |-> TRUE]
\* the fields the constructor sets; it sets no decoder field
FreshDecoder == [structureDefs |-> NoTable, parsedAliases |-> NoTable, parsedValueDict |-> NoTable]
\* the encoder fields the constructor sets: empty maps and counters at 0
FreshEncoder ==
  [structureRefs |-> <<>>, objectAliases |-> <<>>, valueDictionary |-> <<>>,
   valueFirstOccurrence |-> {}, refCounter |-> 0, aliasCounter |-> 0, dictCounter |-> 0]
EncFields(r) ==
  [structureRefs |-> r.structureRefs, objectAliases |-> r.objectAliases,
   valueDictionary |-> r.valueDictionary, valueFirstOccurrence |-> r.valueFirstOccurrence,
   refCounter |-> r.refCounter, aliasCounter |-> r.aliasCounter, dictCounter |-> r.dictCounter]
DecFields(r) ==
  [structureDefs |-> r.structureDefs, parsedAliases |-> r.parsedAliases,
   parsedValueDict |-> r.parsedValueDict]

Init ==
  /\ options = DefaultOptions
  /\ enc = FreshEncoder
  /\ dec = FreshDecoder
  /\ op = "new"
  /\ data = Undefined
  /\ text = <<>>
  /\ result = Undefined
  /\ threw = FALSE
  /\ own = FALSE
  /\ calls = 0

\* compress(data): the fields are cleared, then the analysis and the rendering run
CompressValue(v, isOwn) ==
  /\ \E r \in {CompressFrom(Clear(enc), options, v)} :
        /\ enc' = EncFields(r)
        /\ text' = r.text
  /\ data' = v
  /\ op' = "compress"
  /\ result' = Undefined
  /\ threw' = CompressThrows(v)
  /\ own' = isOwn
  /\ calls' = calls + 1
  /\ UNCHANGED <<options, dec>>

\* compress of a given value
Compress(v) == calls < MaxCalls /\ CompressValue(v, FALSE)

\* decompress(t)
DecompressText(t, isOwn) ==
  /\ calls < MaxCalls
  /\ \E r \in {DecompressFrom(dec, options.delimiter, t)} :
        /\ dec' = DecFields(r)
        /\ result' = r.value
        /\ threw' = r.threw
  /\ text' = t
  /\ op' = "decompress"
  /\ own' = isOwn
  /\ calls' = calls + 1
  /\ UNCHANGED <<options, enc, data>>

\* decompress of a given text
Decompress == \E i \in 1..Len(Texts) : DecompressText(Texts[i], FALSE)
\* decompress of the text the last compress returned
RoundTrip == op = "compress" /\ DecompressText(text, TRUE)
\* compress of the value the round trip returned: the call that follows the two
\* calls of a round trip
Reencode ==
  op = "decompress" /\ own /\ ~threw /\ calls <= MaxCalls /\ CompressValue(result, TRUE)

Next ==
  \/ \E i \in 1..Len(Samples) : Compress(Samples[i])
  \/ Decompress
  \/ RoundTrip
  \/ Reencode

Spec == Init /\ [][Next]_vars

\* new SmartCompressor({ useReferences: false })
InitNoReferences ==
  /\ options = [DefaultOptions EXCEPT !.useReferences = FALSE]
  /\ enc = FreshEncoder
  /\ dec = FreshDecoder
  /\ op = "new"
  /\ data = Undefined
  /\ text = <<>>
  /\ result = Undefined
  /\ threw = FALSE
  /\ own = FALSE
  /\ calls = 0
SpecNoReferences == InitNoReferences /\ [][Next]_vars

(***************************************************************************)
(* Properties                                                              *)
(***************************************************************************)
\* the last call was decompress of the text the call before it, compress(data),
\* returned
RoundTripped == op = "decompress" /\ own
\* the number of places of text at which pat starts
Occurrences(t, pat) ==
  Cardinality({i \in 1..(Len(t) - Len(pat) + 1) : SubSeq(t, i, i + Len(pat) - 1) = pat})

\* C1: decompress(compress(v)) returns v, for every value v, on a fresh and on
\* a reused instance.
C1_RoundTrip == RoundTripped => (~threw /\ result = data)

\* C2: decompress(t) returns, after any earlier calls on the instance, what it
\* returns as the first call on a fresh instance.
C2_CallIndependent ==
  op = "decompress" =>
    \E first \in {DecompressFrom(FreshDecoder, options.delimiter, text)} :
       threw = first.threw /\ result = first.value

\* C3: a tree in which one key schema is the schema of 3 or more flat uniform
\* arrays is encoded with a $def: header and decoded back to the original tree.
C3_RefTablesRoundTrip ==
  \A m \in RefThreshold..MaxArrays, n \in 1..MaxRows :
     (RoundTripped /\ data = RefTree(m, n)) =>
        (StartsWith(text, S("$def:")) /\ ~threw /\ result = data)

\* C4: a string of 6 or more characters that is a mapping value at 3 places is
\* rendered once as "value #0" and twice as the bare tag #0, and decompress
\* returns the string at the three places.
C4_InlineFirst ==
  \A s \in {S("abcdef"), Email} :
     (RoundTripped /\ (data = AtPaths(3, s) \/ data = Copies(3, Obj(<< <<S("s"), Str(s)>> >>)))) =>
        /\ Occurrences(text, s \o S(" #0")) = 1
        /\ Occurrences(text, S(":#0")) = 2
        /\ ~threw
        /\ result = data

\* C5: a mapping of 2 keys with scalar values that occurs exactly twice, at any
\* places, gets one &obj0 definition and two &obj0 reference sites, and is
\* decoded back at both places; one that occurs once gets no alias.
C5_AliasThresholds ==
  \A o \in {Small, Unavailable} :
     /\ (RoundTripped /\ (data = Copies(2, o) \/ data = Arr(<<o, o>>))) =>
           /\ Occurrences(text, S("&obj0:")) = 1
           /\ Occurrences(text, S("&obj0")) - Occurrences(text, S("&obj0:")) = 2
           /\ ~threw
           /\ result = data
     /\ (RoundTripped /\ data = Copies(1, o)) =>
           (Occurrences(text, S("&obj")) = 0 /\ result = data)

\* C6: compress of the users scenario returns the three lines users:[2]@id,name,
\* 1,Alice and 2,Bob, and decompress of that text returns the scenario's object.
C6_UsersScenario ==
  /\ (op = "compress" /\ data = Users) => text = UsersText
  /\ (op = "decompress" /\ text = UsersText) => (~threw /\ result = Users)

\* the header of a table of n rows with the inline keys id,name, and with the
\* marker of the structure reference named $0
InlineHeader(n) == <<"[">> \o DigitsOf(n) \o S("]@id,name")
RefHeader(n) == <<"[">> \o DigitsOf(n) \o S("]$") \o RefName(0)

RECURSIVE Promoted(_, _)
Promoted(v, w) ==
  IF IsStr(v) THEN IsNum(w)
  ELSE IF IsArr(v)
  THEN IsArr(w) /\ \E i \in 1..Len(v[2]) : i <= Len(w[2]) /\ Promoted(v[2][i], w[2][i])
  ELSE IF IsObj(v)
  THEN IsObj(w) /\ \E i \in 1..Len(v[2]) :
                      HasKey(w, v[2][i][1]) /\ Promoted(v[2][i][2], Get(w, v[2][i][1]))
  ELSE FALSE

\* C9: no position that holds a string in v holds a number in
\* decompress(compress(v)).
C9_StringsStayStrings == RoundTripped => ~Promoted(data, result)

\* a chain of single-key mappings that ends in a scalar, no key with a dot
RECURSIVE IsChain(_)
IsChain(v) ==
  /\ IsObj(v)
  /\ Len(v[2]) = 1
  /\ ~HasChar(v[2][1][1], {"."})
  /\ (IsPrimitive(v[2][1][2]) \/ IsChain(v[2][1][2]))

\* C10: a chain of single-key mappings that ends in a scalar is encoded as one
\* line and decoded back to the original nesting.
C10_PathFlattening ==
  (RoundTripped /\ IsChain(data)) =>
     (Occurrences(text, <<"\n">>) = 0 /\ ~threw /\ result = data)

\* C11: compress of the value that decompress(compress(v)) returned gives the
\* text compress(v) gave.
C11_IdempotentReencode ==
  [][(RoundTripped /\ ~threw /\ op' = "compress" /\ data' = result) => text' = text]_vars

\* the text of an empty container
EmptyText(e) == IF IsObj(e) THEN S("{}") ELSE S("[]")
\* C12: compress of the empty mapping is {} and of the empty sequence is [], at
\* the root and as the value of a mapping key, and decompress of the text returns
\* the same empty container.
C12_EmptyContainers ==
  \A e \in {Obj(<<>>), Arr(<<>>)} :
     /\ (op = "compress" /\ data = e) => text = EmptyText(e)
     /\ (op = "compress" /\ data = Obj(<< <<S("a"), e>> >>)) => text = S("a:") \o EmptyText(e)
     /\ (RoundTripped /\ data \in {e, Obj(<< <<S("a"), e>> >>)}) => (~threw /\ result = data)
     /\ (RoundTripped /\ text = S("a:{}\nb:{}\nc:[]")) => (~threw /\ result = data)
\* decompress has returned the mapping whose key a holds the empty mapping
C12_Witness ==
  RoundTripped /\ data = Obj(<< <<S("a"), Obj(<<>>)>> >>) /\ result = data

AtK(v) == Obj(<< <<S("k"), v>> >>)
\* C14: decompress does not throw on a reference without a definition: $9 on a
\* line of its own or as the value of a key (in the data or in an alias of the
\* header) is the empty sequence, and &obj7 and #7 are the strings "&obj7" and
\* "#7".
C14_UnresolvedDegrade ==
  op = "decompress" =>
     /\ (text = S("$9") => (~threw /\ result = Arr(<<>>)))
     /\ (text = S("k:$9") => (~threw /\ result = AtK(Arr(<<>>))))
     /\ (text = S("k:&obj7") => (~threw /\ result = AtK(Str(S("&obj7")))))
     /\ (text = S("k:#7") => (~threw /\ result = AtK(Str(S("#7")))))
     /\ (text = S("$def:\n &obj0:\n  k:$9\n$data:\nx:&obj0") =>
            (~threw /\ result = Obj(<< <<S("x"), AtK(Arr(<<>>))>> >>)))

\* C15: decompress of a text whose first line is $def: and that has no $data:
\* line throws; it returns no value.
C15_UnterminatedHeader ==
  (op = "decompress" /\ Trim(Split(text, "\n")[1]) = S("$def:")
     /\ \A i \in 1..Len(Split(text, "\n")) : ~IsDataMarker(Split(text, "\n")[i]))
  => (threw /\ result = Undefined)

\* a string: a sequence of characters
IsString(t) == \A i \in 1..Len(t) : \E j \in 1..Len(Ascii) : Ascii[j] = t[i]
\* C16: compress of a value tree, whatever nesting of null, boolean, number,
\* string, sequence and mapping it is, throws nothing and returns a text.
C16_EncodeTotal == op = "compress" => (~threw /\ IsString(text))
\* compress has returned the text of a sequence that holds null beside a mapping
C16_Witness ==
  op = "compress" /\ data = Arr(<<Small, Null>>) /\ ~threw /\ Len(text) > 0

\* the values at and below v, and the number of places of v that hold o
RECURSIVE SubValues(_)
SubValues(v) ==
  {v} \cup (IF IsArr(v) THEN UNION {SubValues(v[2][i]) : i \in 1..Len(v[2])}
            ELSE IF IsObj(v) THEN UNION {SubValues(v[2][i][2]) : i \in 1..Len(v[2])}
            ELSE {})
RECURSIVE SumOver(_, _)
SumOver(f, n) == IF n = 0 THEN 0 ELSE f[n] + SumOver(f, n - 1)
RECURSIVE CountOf(_, _)
CountOf(v, o) ==
  (IF v = o THEN 1 ELSE 0)
  + (IF IsArr(v) THEN SumOver([i \in 1..Len(v[2]) |-> CountOf(v[2][i], o)], Len(v[2]))
     ELSE IF IsObj(v) THEN SumOver([i \in 1..Len(v[2]) |-> CountOf(v[2][i][2], o)], Len(v[2]))
     ELSE 0)

\* C17: after compress the alias table holds exactly the candidate mappings that
\* occur at 2 or more places of the tree, named &obj0, &obj1, ... in the order of
\* the table; two different small mappings that occur twice each get &obj0 and
\* &obj1.
C17_AliasTable ==
  op = "compress" =>
     /\ \A o \in SubValues(data) :
           (IsObj(o) /\ IsAliasCandidate(o)) =>
              (MapHas(enc.objectAliases, o) <=> CountOf(data, o) >= AliasThreshold)
     /\ \A i \in 1..Len(enc.objectAliases) : enc.objectAliases[i][2] = AliasName(i - 1)
     /\ data = Arr(<<Small, Small, Unavailable, Unavailable>>) =>
           enc.objectAliases = << <<Small, AliasName(0)>>, <<Unavailable, AliasName(1)>> >>

\* the exact-order key schema of a uniform array, and the number of uniform
\* arrays at and below v that have the schema sig
SchemaOf(a) == Join(GetMostCommonKeys(a[2]).keys, <<"|">>)
RECURSIVE ArrayCount(_, _)
ArrayCount(v, sig) ==
  (IF IsArr(v) /\ IsUniformObjects(v[2]) /\ SchemaOf(v) = sig THEN 1 ELSE 0)
  + (IF IsArr(v) THEN SumOver([i \in 1..Len(v[2]) |-> ArrayCount(v[2][i], sig)], Len(v[2]))
     ELSE IF IsObj(v) THEN SumOver([i \in 1..Len(v[2]) |-> ArrayCount(v[2][i][2], sig)], Len(v[2]))
     ELSE 0)

\* C18: after compress the table of structure references holds exactly the
\* schemas of 3 or more uniform arrays of the tree, wherever the arrays are, also
\* under any key of any element of a uniform array, named $0, $1, ... in the
\* order of the table.
C18_SchemaCounting ==
  op = "compress" =>
     /\ \A a \in SubValues(data) :
           (IsArr(a) /\ IsUniformObjects(a[2])) =>
              (MapHas(enc.structureRefs, SchemaOf(a))
                 <=> ArrayCount(data, SchemaOf(a)) >= RefThreshold)
     /\ \A i \in 1..Len(enc.structureRefs) :
           /\ enc.structureRefs[i][2].name = RefName(i - 1)
           /\ enc.structureRefs[i][2].count = ArrayCount(data, enc.structureRefs[i][1])

\* a sequence _serialize renders as a list block: not uniform, and with a
\* mapping among its elements
IsListBlock(v) ==
  IsArr(v) /\ ~IsUniformObjects(v[2]) /\ \E i \in 1..Len(v[2]) : IsObj(v[2][i])

\* C19: a sequence rendered as a list block, at the root or under a key, is
\* decoded to a sequence of the same length whose elements equal the originals,
\* also when the first key of an element holds a mapping or a sequence.
C19_ListBlocks ==
  (RoundTripped /\ (IsListBlock(data) \/ (IsObj(data) /\ \E i \in 1..Len(data[2]) : IsListBlock(data[2][i][2]))))
  => (~threw /\ result = data)

\* C20: a chain of single-key mappings inside a mapping that is an element of a
\* list block is written as a dotted path and decoded back to the nesting, as it
\* is when the mapping is a mapping value.
C20_ListUnflattening ==
  /\ (op = "compress" /\ data = Arr(<<Num(5), Chain(2, Num(1))>>)) => text = S("- 5\n- a.b:1")
  /\ (RoundTripped /\ data \in {Arr(<<Num(5), Chain(2, Num(1))>>),
                                 Arr(<<Num(5), Obj(<< <<S("a"), Chain(1, Num(1))>>, <<S("c"), Num(2)>> >>)>>)})
        => (~threw /\ result = data)

\* C21: an element of a table whose keys are the keys of the schema in another
\* order comes back from decompress(compress(v)) with its own key order.
C21_ElementKeyOrder ==
  (RoundTripped /\ data = Arr(<<Small, Obj(<< <<S("b"), Num(3)>>, <<S("a"), Num(4)>> >>)>>))
  => (~threw /\ result = data)

\* tables of two rows with the schema id,name whose strings hold the delimiter,
\* double quotes and backslashes
QuotedTables ==
  {Arr(<<Row2(1, S("a,b")), Obj(<< <<S("id"), Str(S("say \"hi\""))>>, <<S("name"), Str(S("a\\b"))>> >>)>>),
   Arr(<<Obj(<< <<S("id"), Str(S("a,b\\"))>>, <<S("name"), Str(S("x"))>> >>), Row2(2, S("y"))>>)}
\* C22: every row compress writes for such a table is split by _parseCsv into one
\* field per key of the schema, and decompress returns the original strings.
C22_RowSplitting ==
  /\ (op = "compress" /\ data \in QuotedTables) =>
        \A i \in 2..Len(Split(text, "\n")) :
           Len(ParseCsv(options.delimiter, Trim(Split(text, "\n")[i]))) = 2
  /\ (RoundTripped /\ data \in QuotedTables) => (~threw /\ result = data)

\* a.b:<scalar> followed by a.b.c:2, for a non-zero and a zero number, a non-empty
\* and an empty string, both booleans and null
ScalarThenDeeper ==
  {S("a.b:1\na.b.c:2"), S("a.b:0\na.b.c:2"), S("a.b:x\na.b.c:2"), S("a.b:\"\"\na.b.c:2"),
   S("a.b:true\na.b.c:2"), S("a.b:false\na.b.c:2"), S("a.b:null\na.b.c:2")}
\* C23: decompress of a.b:<scalar> followed by a.b.c:2 returns normally and the
\* incoming mapping replaces the scalar at a.b, whatever the scalar is.
C23_DeepMergeTotal ==
  (op = "decompress" /\ text \in ScalarThenDeeper)
  => (~threw /\ result = Obj(<< <<S("a"), Obj(<< <<S("b"), Obj(<< <<S("c"), Num(2)>> >>)>> >>)>> >>))

\* C24: a.b:1 followed by a.c:2 decodes to one mapping a = {b:1, c:2}; a later
\* entry for a key that exists keeps the key in its place and a new key goes last.
C24_SharedRootMerge ==
  /\ (op = "decompress" /\ text = S("a.b:1\na.c:2"))
       => (~threw /\ result = Obj(<< <<S("a"), Obj(<< <<S("b"), Num(1)>>, <<S("c"), Num(2)>> >>)>> >>))
  /\ (op = "decompress" /\ text = S("a.b:1\nz:0\na.c:2\na.b:3"))
       => (~threw /\ result = Obj(<< <<S("a"), Obj(<< <<S("b"), Num(3)>>, <<S("c"), Num(2)>> >>)>>,
                                     <<S("z"), Num(0)>> >>))
C24_Witness ==
  op = "decompress" /\ text = S("a.b:1\nz:0\na.c:2\na.b:3") /\ ~threw /\ Len(result[2]) = 2

\* the tag starts at position p of t and is not followed by a digit
TagAt(t, p, tag) ==
  /\ p + Len(tag) - 1 <= Len(t)
  /\ SubSeq(t, p, p + Len(tag) - 1) = tag
  /\ (p + Len(tag) > Len(t) \/ t[p + Len(tag)] \notin Digits)
\* the tag at position p follows a value and a space ("value #N"), not a bullet
AfterValue(t, p) ==
  /\ p > 2
  /\ t[p - 1] = " "
  /\ ~(t[p - 2] = "-" /\ (p = 3 \/ t[p - 3] \in {" ", "\n"}))
\* C25: in the text of every compress, each tag of valueDictionary occurs once
\* as "value #N", and no occurrence of the tag comes before it.
C25_InlineFirstOrdering ==
  (op = "compress" /\ ~threw /\ ~own) =>
     \A i \in 1..Len(enc.valueDictionary) :
        LET tag == enc.valueDictionary[i][2]
            P == {p \in 1..Len(text) : TagAt(text, p, tag)}
            F == {p \in P : AfterValue(text, p)}
        IN /\ Cardinality(F) = 1
           /\ \A f \in F : \A p \in P : f <= p

\* the number of mapping values below v that are the string s
RECURSIVE ValueCount(_, _)
ValueCount(v, s) ==
  IF IsArr(v) THEN SumOver([i \in 1..Len(v[2]) |-> ValueCount(v[2][i], s)], Len(v[2]))
  ELSE IF IsObj(v)
  THEN SumOver([i \in 1..Len(v[2]) |->
                  (IF v[2][i][2] = Str(s) THEN 1 ELSE 0) + ValueCount(v[2][i][2], s)], Len(v[2]))
  ELSE 0
\* two strings of 6 characters, each a mapping value at two places
EqualSavings ==
  Obj(<< <<S("p1"), Obj(<< <<S("u"), Str(S("abcdef"))>>, <<S("w"), Str(S("ghijkl"))>>, <<S("n"), Num(1)>> >>)>>,
         <<S("p2"), Obj(<< <<S("u"), Str(S("abcdef"))>>, <<S("w"), Str(S("ghijkl"))>>, <<S("n"), Num(2)>> >>)>> >>)
SavingOf(v, s) == Len(s) * ValueCount(v, s) - (Len(s) + 3 + 2 * (ValueCount(v, s) - 1))
\* C26: after a compress with both options on, valueDictionary holds exactly the
\* strings of 5 or more characters that are a mapping value at 2 or more places
\* and have positive savings; its tags are #0, #1, ... in descending order of the
\* savings, equal savings in first-seen order.
C26_DictionaryContents ==
  (op = "compress" /\ ~threw /\ options.useReferences /\ options.useDictionary) =>
     /\ {enc.valueDictionary[i][1] : i \in 1..Len(enc.valueDictionary)}
          = {s \in {w[2] : w \in {x \in SubValues(data) : IsStr(x)}} :
               Len(s) >= 5 /\ ValueCount(data, s) >= 2 /\ SavingOf(data, s) > 0}
     /\ \A i \in 1..Len(enc.valueDictionary) :
          /\ enc.valueDictionary[i][2] = <<"#">> \o DigitsOf(i - 1)
          /\ \A j \in 1..(i - 1) : enc.valueDictionary[j][1] # enc.valueDictionary[i][1]
          /\ \A j \in 1..(i - 1) :
               SavingOf(data, enc.valueDictionary[j][1]) >= SavingOf(data, enc.valueDictionary[i][1])
     /\ data = EqualSavings => enc.valueDictionary = << <<S("abcdef"), S("#0")>>, <<S("ghijkl"), S("#1")>> >>
     /\ data = AtPaths(2, S("abcde")) => enc.valueDictionary = <<>>
\* compress has given two strings a tag, the one seen second the tag #0
C26_Witness ==
  /\ op = "compress" /\ ~threw
  /\ enc.valueDictionary = << <<Email, S("#0")>>, <<S("abcdef"), S("#1")>> >>

\* the set of keys of a mapping, and the elements of arr with the keys of arr[i]
KeySet(o) == {o[2][i][1] : i \in 1..Len(o[2])}
SameKeys(arr, i) == {j \in 1..Len(arr) : KeySet(arr[j]) = KeySet(arr[i])}
\* the first element whose set of keys is a most frequent one
FirstOfMostFrequent(arr) ==
  CHOOSE i \in 1..Len(arr) :
    /\ \A j \in 1..Len(arr) : Cardinality(SameKeys(arr, j)) <= Cardinality(SameKeys(arr, i))
    /\ \A j \in 1..(i - 1) : Cardinality(SameKeys(arr, j)) < Cardinality(SameKeys(arr, i))
\* C27: for every non-empty sequence below the argument of compress,
\* _isUniformObjects is true exactly when all elements are mappings and the most
\* frequent set of keys covers 60% of them or more, and the schema of
\* _getMostCommonKeys is the key order of the first element with that set of keys.
C27_UniformTest ==
  (op = "compress" /\ ~threw) =>
     \A a \in {x \in SubValues(data) : IsArr(x) /\ Len(x[2]) > 0} :
        /\ IsUniformObjects(a[2]) =
             /\ \A i \in 1..Len(a[2]) : IsObj(a[2][i])
             /\ \E i \in 1..Len(a[2]) : 10 * Cardinality(SameKeys(a[2], i)) >= 6 * Len(a[2])
        /\ (\A i \in 1..Len(a[2]) : IsObj(a[2][i])) =>
              GetMostCommonKeys(a[2]).keys
                = [k \in 1..Len(a[2][FirstOfMostFrequent(a[2])][2]) |-> a[2][FirstOfMostFrequent(a[2])][2][k][1]]
\* compress has rendered a sequence of 5 mappings, 3 of them with the keys a and
\* b, as a uniform one
C27_Witness ==
  /\ op = "compress" /\ ~threw /\ IsArr(data)
  /\ Len(data[2]) = 5 /\ IsUniformObjects(data[2])
  /\ StartsWith(text, S("- \n a:1\n b:2\n- \n c:1"))

\* a is a sequence of mappings whose most frequent set of keys covers 60% of it,
\* with scalars at every key of the schema and no key outside the schema
SchemaOfFirst(arr) == KeySet(arr[FirstOfMostFrequent(arr)])
IsTable(arr) ==
  /\ \A i \in 1..Len(arr) : IsObj(arr[i])
  /\ \E i \in 1..Len(arr) : 10 * Cardinality(SameKeys(arr, i)) >= 6 * Len(arr)
  /\ \A i \in 1..Len(arr) :
       /\ KeySet(arr[i]) \subseteq SchemaOfFirst(arr)
       /\ \A k \in 1..Len(arr[i][2]) : ~IsArr(arr[i][2][k][2]) /\ ~IsObj(arr[i][2][k][2])
\* the lines of t that start with a bullet in column 1
Bullets(t) == {i \in 1..Len(Split(t, "\n")) : StartsWith(Split(t, "\n")[i], S("- "))}
\* C28: compress of a non-empty sequence, when the text has no header, is a table
\* block with the header [N]@schema and N rows exactly when the sequence is
\* uniform with scalars at the schema keys and no other keys; it is the inline
\* literal [v1,v2,...] when all elements are scalars; otherwise it is a list block
\* of N bullets.
C28_SequenceRendering ==
  (op = "compress" /\ ~threw /\ IsArr(data) /\ Len(data[2]) > 0 /\ ~StartsWith(text, S("$def:"))) =>
     IF IsTable(data[2])
     THEN /\ StartsWith(text, <<"[">> \o DigitsOf(Len(data[2])) \o S("]@"))
          /\ Len(Split(text, "\n")) = Len(data[2]) + 1
     ELSE IF \A i \in 1..Len(data[2]) : ~IsArr(data[2][i]) /\ ~IsObj(data[2][i])
     THEN /\ text[1] = "[" /\ text[Len(text)] = "]"
          /\ Len(Split(text, "\n")) = 1
     ELSE /\ 1 \in Bullets(text)
          /\ Cardinality(Bullets(text)) = Len(data[2])

\* v holds a string or a key with one of the characters that start a reference,
\* an alias or a tag
Marks == {"$", "&", "#"}
HasMarks(v) ==
  \E x \in SubValues(v) :
     \/ IsStr(x) /\ \E i \in 1..Len(x[2]) : x[2][i] \in Marks
     \/ IsObj(x) /\ \E k \in 1..Len(x[2]) : \E i \in 1..Len(x[2][k][1]) : x[2][k][1][i] \in Marks
\* C29: with useReferences false and useDictionary true, compress fills none of
\* the three tables and its text has no $def: header; when no string and no key of
\* the value has a $, a & or a #, the text has none either: no $N reference, no
\* &obj alias and no #N tag.
C29_NoAnalysis ==
  (op = "compress" /\ ~threw /\ ~options.useReferences /\ options.useDictionary) =>
     /\ enc.structureRefs = <<>> /\ enc.objectAliases = <<>> /\ enc.valueDictionary = <<>>
     /\ ~StartsWith(text, S("$def:"))
     /\ ~HasMarks(data) => \A i \in 1..Len(text) : text[i] \notin Marks
\* compress without references has written a string at three paths three times
C29_Witness ==
  /\ op = "compress" /\ ~options.useReferences /\ options.useDictionary
  /\ data = AtPaths(3, Email) /\ Occurrences(text, Email) = 3
\* the instance as the parser reads it after the last decompress
Parser == [structureDefs |-> dec.structureDefs, parsedAliases |-> dec.parsedAliases,
           delimiter |-> options.delimiter]
\* C30: decompress returns a value or throws; every call of _parseValue on a
\* line of the text, with a parent indentation below that of the line, returns a
\* next line index beyond the line and at most one beyond the last line; the
\* header loop, started at any line, ends at the $data: line or behind the last
\* line.
C30_DecodeProgress ==
  op = "decompress" =>
     /\ threw \/ result # Undefined
     /\ \A j \in 2..Len(Split(text, "\n")) :
          \E h \in {HeaderLoop(Parser,
                               [structureDefs |-> <<>>, objectAliases |-> <<>>,
                                valueDictionary |-> <<>>,
                                d |-> [dict |-> dec.parsedValueDict, err |-> FALSE], i |-> j],
                               Split(text, "\n"))} :
             \/ h.d.err
             \/ h.i = Len(Split(text, "\n")) + 1
             \/ (j <= h.i /\ h.i <= Len(Split(text, "\n")) /\ IsDataMarker(Split(text, "\n")[h.i]))
     /\ \A idx \in 1..Len(Split(text, "\n")) :
          \A parent \in -1..(IF GetIndent(Split(text, "\n"), idx) < 0 THEN -1
                             ELSE GetIndent(Split(text, "\n"), idx) - 1) :
             \E r \in {ParseValue(Parser, [dict |-> dec.parsedValueDict, err |-> FALSE],
                                  Split(text, "\n"), idx, parent)} :
                r.d.err \/ (idx < r.nextIdx /\ r.nextIdx <= Len(Split(text, "\n")) + 1)
\* decompress has returned the value of a text with a list block, a nested
\* mapping and a table
C30_Witness ==
  /\ op = "decompress" /\ ~threw
  /\ text = S("items:\n - x:1\n   y:2\n - \n   z:3\nrows:@a,b\n 1,2\n - a:3 b:4")
  /\ IsObj(result) /\ Len(result[2]) = 2

====
